---- MODULE Spec2Model ----
(***************************************************************************)
(* Model of the feed handler: the resumable FIX byte parser                *)
(* (FSMFixParser), its garbage recovery driver, and the ReceiveBuffer.     *)
(* Bytes are modelled by their ASCII codes.                                *)
(***************************************************************************)
EXTENDS Integers, Sequences, FiniteSets, TLC

(***************************************************************************)
(* Bytes the code compares against.                                        *)
(***************************************************************************)
CH_0 == 48
CH_9 == 57
CH_EQ == 61
CH_PIPE == 124
CH_SOH == 1
CH_LF == 10
CH_CR == 13
CH_MINUS == 45
CH_PLUS == 43
CH_DOT == 46
SIDE_B == 66
SIDE_S == 83
SIDE_NONE == 0

INT32_MAX == 2147483647
INT32_MIN == -2147483647 - 1
TAG_BUFFER_SIZE == 16
VALUE_BUFFER_SIZE == 256
SYMBOL_STORAGE_SIZE == 64
PRICE_SCALE == 10000
BUFFER_SIZE == 8192

(***************************************************************************)
(* Model bounds.                                                           *)
(***************************************************************************)
MaxMsgs == 2
Overflow == 2
MaxOps == 4
MaxPairs == 4
MaxItems == 3
MaxQueueSize == 2
MaxInject == 3
MaxReads == 1
MaxCapacity == 3
MaxPoolOps == 8

Min(a, b) == IF a < b THEN a ELSE b

\* result * 10 + d in 32-bit two's complement, computed on 16-bit halves so
\* that no intermediate value leaves the range of a 32-bit int
Mul10Add32(result, d) ==
    LET hi == (result \div 65536) % 65536
        lo == result % 65536
        lo10 == lo * 10 + d
        hi10 == (hi * 10 + (lo10 \div 65536)) % 65536
    IN ((IF hi10 >= 32768 THEN hi10 - 65536 ELSE hi10) * 65536) + (lo10 % 65536)

\* -x in 32-bit two's complement
Neg32(x) == IF x = INT32_MIN THEN INT32_MIN ELSE -x

(***************************************************************************)
(* FastNumberParser.  fast_atoi works on a 32-bit int; fast_atof_fixed     *)
(* works on 64-bit values, and the prices of the model stay far below      *)
(* that width.                                                             *)
(***************************************************************************)
is_digit(c) == c >= CH_0 /\ c <= CH_9

digit_to_int(c) == c - CH_0

RECURSIVE atoi_loop(_, _, _, _)
atoi_loop(s, i, result, negative) ==
    IF i <= Len(s) /\ is_digit(s[i])
    THEN IF result > INT32_MAX \div 10
         THEN (IF negative THEN INT32_MIN ELSE INT32_MAX)
         ELSE atoi_loop(s, i + 1, Mul10Add32(result, digit_to_int(s[i])), negative)
    ELSE (IF negative THEN Neg32(result) ELSE result)

fast_atoi(s) ==
    IF Len(s) = 0 THEN 0
    ELSE LET negative == s[1] = CH_MINUS
             start == IF s[1] = CH_MINUS \/ s[1] = CH_PLUS THEN 2 ELSE 1
         IN IF start > Len(s) THEN 0 ELSE atoi_loop(s, start, 0, negative)

\* index just past the run of digits of s that starts at i
RECURSIVE digits_end(_, _)
digits_end(s, i) ==
    IF i <= Len(s) /\ is_digit(s[i]) THEN digits_end(s, i + 1) ELSE i

RECURSIVE atof_integer_part(_, _, _)
atof_integer_part(s, i, acc) ==
    IF i <= Len(s) /\ is_digit(s[i])
    THEN atof_integer_part(s, i + 1, acc * 10 + digit_to_int(s[i]))
    ELSE acc

\* a fractional loop that rounds on the first digit beyond the scale
RECURSIVE atof_fraction_rounding(_, _, _, _, _)
atof_fraction_rounding(s, i, part, fscale, scale) ==
    IF i <= Len(s) /\ is_digit(s[i])
    THEN IF fscale < scale
         THEN atof_fraction_rounding(s, i + 1, part * 10 + digit_to_int(s[i]),
                                     fscale * 10, scale)
         ELSE <<part + (IF digit_to_int(s[i]) >= 5 THEN 1 ELSE 0), fscale>>
    ELSE <<part, fscale>>

\* <<fractional_part, fractional_scale>> after the fractional loop
RECURSIVE atof_fraction(_, _, _, _, _)
atof_fraction(s, i, part, fscale, scale) ==
    IF i <= Len(s) /\ is_digit(s[i]) /\ fscale < scale
    THEN atof_fraction(s, i + 1, part * 10 + digit_to_int(s[i]), fscale * 10, scale)
    ELSE <<part, fscale>>

fast_atof_fixed(s, scale) ==
    IF Len(s) = 0 THEN 0
    ELSE LET negative == s[1] = CH_MINUS
             start == IF s[1] = CH_MINUS \/ s[1] = CH_PLUS THEN 2 ELSE 1
         IN IF start > Len(s) THEN 0
            ELSE LET integer_part == atof_integer_part(s, start, 0)
                     dot == digits_end(s, start)
                     frac == IF dot <= Len(s) /\ s[dot] = CH_DOT
                             THEN atof_fraction(s, dot + 1, 0, 1, scale)
                             ELSE <<0, 1>>
                     result == integer_part * scale + frac[1] * (scale \div frac[2])
                 IN IF negative THEN -result ELSE result

(***************************************************************************)
(* common/tick.hpp                                                         *)
(***************************************************************************)
\* static_cast<int64_t>(price * 10000.0 + 0.5) applied to fixed / 10000.0:
\* the product is within half a unit of `fixed`, and the cast truncates
\* toward zero, so a non-negative value comes back unchanged and a negative
\* one comes back one unit closer to zero.
double_to_price_of_fixed(fixed) == IF fixed >= 0 THEN fixed ELSE fixed + 1

\* fix_side_to_char with the two sides exchanged
fix_side_to_char_swapped(fix_side) ==
    IF fix_side = 1 THEN SIDE_S
    ELSE IF fix_side = 2 THEN SIDE_B
    ELSE SIDE_NONE

fix_side_to_char(fix_side) ==
    IF fix_side = 1 THEN SIDE_B
    ELSE IF fix_side = 2 THEN SIDE_S
    ELSE SIDE_NONE

(***************************************************************************)
(* FSMFixParser.  A parser is a record: state_, current_tag_, the tag and  *)
(* value scratches (tag_buffer_[0, tag_length_) and                        *)
(* value_buffer_[0, value_length_) as sequences) and tick_builder_.        *)
(* symbol_storage keeps its bytes across TickBuilder::reset; it is held as *)
(* the bytes written so far, the rest of the 64 never having been written. *)
(***************************************************************************)
States == {"WAIT_TAG", "READ_TAG", "WAIT_VALUE", "READ_VALUE", "COMPLETE"}

is_delimiter(c) == c = CH_PIPE \/ c = CH_SOH \/ c = CH_LF \/ c = CH_CR

\* TickBuilder() : the constructor leaves symbol_storage unwritten
NewTickBuilder ==
    [symbol_storage |-> <<>>, symbol_length |-> 0, price |-> 0, qty |-> 0,
     side |-> SIDE_NONE, has_symbol |-> FALSE, has_price |-> FALSE,
     has_qty |-> FALSE, has_side |-> FALSE]

\* TickBuilder::reset
builder_reset(b) ==
    [b EXCEPT !.symbol_length = 0, !.price = 0, !.qty = 0, !.side = SIDE_NONE,
              !.has_symbol = FALSE, !.has_price = FALSE,
              !.has_qty = FALSE, !.has_side = FALSE]

\* is_valid that forgets the quantity
is_valid_no_qty(b) == b.has_symbol /\ b.has_price /\ b.has_side

\* is_valid that also tests the values, as Tick::is_valid does
is_valid_of_values(b) ==
    /\ b.has_symbol /\ b.has_price /\ b.has_qty /\ b.has_side
    /\ b.symbol_length > 0 /\ b.price > 0 /\ b.qty > 0
    /\ (b.side = SIDE_B \/ b.side = SIDE_S)

\* TickBuilder::is_valid
is_valid(b) == b.has_symbol /\ b.has_price /\ b.has_qty /\ b.has_side

\* FSMFixParser::FSMFixParser
NewParser ==
    [state |-> "WAIT_TAG", current_tag |-> 0, value_buffer |-> <<>>,
     tag_buffer |-> <<>>, tick_builder |-> NewTickBuilder]

\* a reset that leaves the builder as it is
parser_reset_keeping_builder(p) ==
    [p EXCEPT !.state = "WAIT_TAG", !.current_tag = 0, !.value_buffer = <<>>,
              !.tag_buffer = <<>>]

\* FSMFixParser::reset
parser_reset(p) ==
    [p EXCEPT !.state = "WAIT_TAG", !.current_tag = 0, !.value_buffer = <<>>,
              !.tag_buffer = <<>>, !.tick_builder = builder_reset(p.tick_builder)]

\* memcpy(symbol_storage, value_buffer_, value_length_)
memcpy_prefix(dst, src) ==
    src \o (IF Len(dst) > Len(src) THEN SubSeq(dst, Len(src) + 1, Len(dst)) ELSE <<>>)

\* parse_accumulated_double followed by double_to_price (case 44)
parse_price(value) == double_to_price_of_fixed(fast_atof_fixed(value, PRICE_SCALE))

\* the tag switch of READ_VALUE for the tags that fill the builder
commit_field(b, tag, value) ==
    IF tag = 38 THEN [b EXCEPT !.qty = fast_atoi(value), !.has_qty = TRUE]
    ELSE IF tag = 44 THEN [b EXCEPT !.price = parse_price(value), !.has_price = TRUE]
    ELSE IF tag = 54
         THEN [b EXCEPT !.side = fix_side_to_char(fast_atoi(value)), !.has_side = TRUE]
    ELSE IF tag = 55
         THEN IF Len(value) < SYMBOL_STORAGE_SIZE
              THEN [b EXCEPT !.symbol_storage = memcpy_prefix(@, value),
                             !.symbol_length = Len(value), !.has_symbol = TRUE]
              ELSE b
    ELSE b

\* a digit met in WAIT_TAG or COMPLETE starts a tag
start_tag(p, c) == [p EXCEPT !.tag_buffer = <<c>>, !.state = "READ_TAG"]

\* read_value without the completion on '\n': only tag 10 ends a message
read_value_tag10_only(p, c) ==
    IF is_delimiter(c)
    THEN IF p.current_tag = 10
         THEN [p |-> [p EXCEPT !.state = "COMPLETE", !.current_tag = 0], done |-> TRUE]
         ELSE [p |-> [p EXCEPT !.tick_builder =
                                   commit_field(p.tick_builder, p.current_tag,
                                                p.value_buffer),
                               !.current_tag = 0, !.value_buffer = <<>>,
                               !.state = "WAIT_TAG"],
               done |-> FALSE]
    ELSE [p |-> IF Len(p.value_buffer) < VALUE_BUFFER_SIZE - 1
                THEN [p EXCEPT !.value_buffer = Append(@, c)]
                ELSE p,
          done |-> FALSE]

\* read_value that appends every byte to the scratch
read_value_unbounded(p, c) ==
    IF is_delimiter(c)
    THEN IF p.current_tag = 10
         THEN [p |-> [p EXCEPT !.state = "COMPLETE", !.current_tag = 0], done |-> TRUE]
         ELSE LET b == commit_field(p.tick_builder, p.current_tag, p.value_buffer)
                  q == [p EXCEPT !.tick_builder = b, !.current_tag = 0,
                                 !.value_buffer = <<>>, !.state = "WAIT_TAG"]
              IN IF c = CH_LF /\ is_valid(b)
                 THEN [p |-> [q EXCEPT !.state = "COMPLETE"], done |-> TRUE]
                 ELSE [p |-> q, done |-> FALSE]
    ELSE [p |-> [p EXCEPT !.value_buffer = Append(@, c)], done |-> FALSE]

\* the READ_VALUE case of process_char
read_value(p, c) ==
    IF is_delimiter(c)
    THEN IF p.current_tag = 10
         THEN [p |-> [p EXCEPT !.state = "COMPLETE", !.current_tag = 0], done |-> TRUE]
         ELSE LET b == commit_field(p.tick_builder, p.current_tag, p.value_buffer)
                  q == [p EXCEPT !.tick_builder = b, !.current_tag = 0,
                                 !.value_buffer = <<>>, !.state = "WAIT_TAG"]
              IN IF c = CH_LF /\ is_valid(b)
                 THEN [p |-> [q EXCEPT !.state = "COMPLETE"], done |-> TRUE]
                 ELSE [p |-> q, done |-> FALSE]
    ELSE [p |-> IF Len(p.value_buffer) < VALUE_BUFFER_SIZE - 1
                THEN [p EXCEPT !.value_buffer = Append(@, c)]
                ELSE p,
          done |-> FALSE]

\* FSMFixParser::process_char: the parser after the byte, and whether a
\* message was completed
process_char(p, c) ==
    CASE p.state = "WAIT_TAG" ->
           [p |-> IF is_digit(c) THEN start_tag(p, c) ELSE p, done |-> FALSE]
      [] p.state = "READ_TAG" ->
           [p |-> IF is_digit(c)
                  THEN IF Len(p.tag_buffer) < TAG_BUFFER_SIZE - 1
                       THEN [p EXCEPT !.tag_buffer = Append(@, c)]
                       ELSE p
                  ELSE IF c = CH_EQ
                  THEN [p EXCEPT !.current_tag = fast_atoi(p.tag_buffer),
                                 !.value_buffer = <<>>, !.state = "READ_VALUE"]
                  ELSE [p EXCEPT !.state = "WAIT_TAG", !.current_tag = 0,
                                 !.tag_buffer = <<>>],
            done |-> FALSE]
      [] p.state = "WAIT_VALUE" -> read_value([p EXCEPT !.state = "READ_VALUE"], c)
      [] p.state = "READ_VALUE" -> read_value(p, c)
      [] p.state = "COMPLETE" ->
           LET q == [p EXCEPT !.state = "WAIT_TAG", !.current_tag = 0]
           IN [p |-> IF is_digit(c) THEN start_tag(q, c) ELSE q, done |-> FALSE]

\* a finalize_message that leaves state_ as it is
finalize_message_keeping_state(p) == p

\* FSMFixParser::finalize_message
finalize_message(p) == [p EXCEPT !.state = "WAIT_TAG"]

\* the tick parse() builds from the builder: symbol is a string_view of
\* tick_builder_.symbol_storage (owns_symbol_ is false, so copying the tick
\* into the vector keeps the view), held as its size; the timestamp is left
\* out
make_tick(b) ==
    [symbol_size |-> b.symbol_length, price |-> b.price, qty |-> b.qty, side |-> b.side]

\* parse_byte that resets the builder only after it emitted a tick
parse_byte_reset_on_emit(st, c) ==
    LET r == process_char(st[1], c)
    IN IF r.done
       THEN LET f == finalize_message(r.p)
            IN IF is_valid(f.tick_builder)
               THEN <<[f EXCEPT !.tick_builder = builder_reset(@)],
                      Append(st[2], make_tick(f.tick_builder))>>
               ELSE <<f, st[2]>>
       ELSE <<r.p, st[2]>>

\* one iteration of the loop of parse(): st = <<parser, ticks>> before byte
\* c, the result is the pair after it
parse_byte(st, c) ==
    LET r == process_char(st[1], c)
    IN IF r.done
       THEN LET f == finalize_message(r.p)
            IN <<[f EXCEPT !.tick_builder = builder_reset(@)],
                 IF is_valid(f.tick_builder)
                 THEN Append(st[2], make_tick(f.tick_builder)) ELSE st[2]>>
       ELSE <<r.p, st[2]>>

\* the loop of parse() over buffer[lo..hi], bytes taken left to right.  The
\* range is split in halves, and the left half is evaluated (its state
\* inspected) before the right one is entered, to keep the evaluation shallow
RECURSIVE parse_range(_, _, _, _)
parse_range(st, buffer, lo, hi) ==
    IF lo > hi THEN st
    ELSE IF lo = hi THEN parse_byte(st, buffer[lo])
    ELSE LET mid == (lo + hi) \div 2
             left == parse_range(st, buffer, lo, mid)
         IN IF left[1].state \in States
            THEN parse_range(left, buffer, mid + 1, hi)
            ELSE left

\* parse that clears the value scratch at the start of every call
parse_fresh_scratch(p, out, buffer) ==
    parse_range(<<[p EXCEPT !.value_buffer = <<>>], out>>, buffer, 1, Len(buffer))

\* FSMFixParser::parse: <<parser, ticks>> after the whole buffer
parse(p, out, buffer) == parse_range(<<p, out>>, buffer, 1, Len(buffer))

\* a return value that is the index of the last byte, not the count
parse_return_last_index(p, buffer) == IF Len(buffer) = 0 THEN 0 ELSE Len(buffer) - 1

\* consumed in the loop of parse(): set to i + 1 at the end of every turn;
\* the turns i = lo .. hi - 1, taken in two halves
RECURSIVE consumed_loop(_, _, _)
consumed_loop(lo, hi, consumed) ==
    IF lo >= hi THEN consumed
    ELSE IF lo + 1 = hi THEN lo + 1
    ELSE LET mid == (lo + hi) \div 2
         IN consumed_loop(mid, hi, consumed_loop(lo, mid, consumed))

\* FSMFixParser::parse: the value returned
parse_return(p, buffer) == consumed_loop(0, Len(buffer), 0)

\* the bytes a tick's symbol view reads: symbol_storage of the parser that
\* emitted it, as it is now
tick_symbol(p, t) == SubSeq(p.tick_builder.symbol_storage, 1, t.symbol_size)

\* RecoveryStats as constructed
NewRecoveryStats == [error_count |-> 0, recovery_count |-> 0, bytes_skipped |-> 0]

(***************************************************************************)
(* Garbage recovery.  FSMFixParser declares attempt_garbage_recovery and   *)
(* is_fix_message_start, and the enum RecoveryState, but defines neither   *)
(* function; they are written here from the description of the recovery    *)
(* sub-FSM: one "good next byte" edge per state, a mismatch returns to     *)
(* SCANNING except that a mismatched '8' goes to FOUND_8, the call returns *)
(* the count of bytes to skip to reach the anchor, and the counters are    *)
(* updated.                                                                *)
(***************************************************************************)
ANCHOR == <<56, 61, 70, 73, 88>>  \* 8=FIX

is_fix_message_start(buffer) ==
    /\ Len(buffer) >= Len(ANCHOR)
    /\ SubSeq(buffer, 1, Len(ANCHOR)) = ANCHOR

\* one edge of the recovery sub-FSM
recovery_next(s, c) ==
    LET restart == IF c = ANCHOR[1] THEN "FOUND_8" ELSE "SCANNING"
    IN CASE s = "SCANNING" -> restart
         [] s = "FOUND_8" -> IF c = ANCHOR[2] THEN "FOUND_EQUALS" ELSE restart
         [] s = "FOUND_EQUALS" -> IF c = ANCHOR[3] THEN "FOUND_F" ELSE restart
         [] s = "FOUND_F" -> IF c = ANCHOR[4] THEN "FOUND_FI" ELSE restart
         [] s = "FOUND_FI" -> IF c = ANCHOR[5] THEN "COMPLETE" ELSE restart
         [] s = "COMPLETE" -> "COMPLETE"

\* the index of the byte that completes the first anchor in buffer[i..], or
\* 0 when there is none
RECURSIVE scan_for_anchor(_, _, _)
scan_for_anchor(buffer, i, s) ==
    IF i > Len(buffer) THEN 0
    ELSE LET t == recovery_next(s, buffer[i])
         IN IF t = "COMPLETE" THEN i ELSE scan_for_anchor(buffer, i + 1, t)

\* the bytes to skip (all of them when no anchor is found) and the counters
\* after the call
attempt_garbage_recovery(stats, buffer) ==
    LET last == scan_for_anchor(buffer, 1, "SCANNING")
        skip == IF last = 0 THEN Len(buffer) ELSE last - Len(ANCHOR)
    IN [skip |-> skip,
        stats |-> [error_count |-> stats.error_count + 1,
                   recovery_count |-> stats.recovery_count + (IF last = 0 THEN 0 ELSE 1),
                   bytes_skipped |-> stats.bytes_skipped + skip]]

(***************************************************************************)
(* ReceiveBuffer (net/receive_buffer.cpp).  buffer_ is held as the cells   *)
(* written since the last memset, a prefix of the array: the cells after   *)
(* them are zero.  The positions are 0-based offsets, as in the code.      *)
(***************************************************************************)
NewReceiveBuffer ==
    [buffer_ |-> <<>>, write_pos_ |-> 0, read_pos_ |-> 0]

\* memcpy(buffer_ + at, src, n)
copy_into(buffer, at, src, n) ==
    SubSeq(buffer, 1, at) \o SubSeq(src, 1, n) \o SubSeq(buffer, at + n + 1, Len(buffer))

\* write that copies to the start of the array
write_at_start(b, data) ==
    LET available == BUFFER_SIZE - b.write_pos_
        to_write == Min(Len(data), available)
    IN [rb |-> IF to_write > 0
               THEN [b EXCEPT !.buffer_ = copy_into(b.buffer_, 0, data, to_write),
                              !.write_pos_ = @ + to_write]
               ELSE b,
        ret |-> to_write]

\* write that trusts the caller's length
write_unchecked(b, data) ==
    [rb |-> [b EXCEPT !.buffer_ = copy_into(b.buffer_, b.write_pos_, data, Len(data)),
                      !.write_pos_ = @ + Len(data)],
     ret |-> Len(data)]

\* ReceiveBuffer::write: the buffer after the call and the returned count
write(b, data) ==
    LET available == BUFFER_SIZE - b.write_pos_
        to_write == Min(Len(data), available)
    IN [rb |-> IF to_write > 0
               THEN [b EXCEPT !.buffer_ = copy_into(b.buffer_, b.write_pos_, data, to_write),
                              !.write_pos_ = @ + to_write]
               ELSE b,
        ret |-> to_write]

readable_bytes(b) == b.write_pos_ - b.read_pos_

\* the bytes read_ptr() exposes: readable_bytes() bytes from read_pos_
readable(b) ==
    LET held == Min(b.write_pos_, Len(b.buffer_))
        zeros == b.write_pos_ - (IF held > b.read_pos_ THEN held ELSE b.read_pos_)
    IN SubSeq(b.buffer_, b.read_pos_ + 1, held) \o [i \in 1..zeros |-> 0]

\* consume whose compaction resets the positions without moving the bytes
consume_no_move(b, len) ==
    LET r == b.read_pos_ + Min(len, readable_bytes(b))
    IN IF r > BUFFER_SIZE \div 2
       THEN [b EXCEPT !.write_pos_ = b.write_pos_ - r, !.read_pos_ = 0]
       ELSE [b EXCEPT !.read_pos_ = r]

\* ReceiveBuffer::consume
consume(b, len) ==
    LET r == b.read_pos_ + Min(len, readable_bytes(b))
    IN IF r > BUFFER_SIZE \div 2
       THEN LET remaining == b.write_pos_ - r
            IN [buffer_ |-> IF remaining > 0
                            THEN copy_into(b.buffer_, 0,
                                           SubSeq(b.buffer_, r + 1, b.write_pos_),
                                           remaining)
                            ELSE b.buffer_,
                write_pos_ |-> remaining,
                read_pos_ |-> 0]
       ELSE [b EXCEPT !.read_pos_ = r]

has_space(b) == b.write_pos_ < BUFFER_SIZE

\* ReceiveBuffer::reset
receive_buffer_reset(b) == NewReceiveBuffer

(***************************************************************************)
(* MessageQueue (threading/message_queue.hpp).  Every member function runs *)
(* under mutex_, so a call is one step, except where it waits: wait()      *)
(* releases the mutex and the thread sleeps in the condition variable      *)
(* until it is notified (or wakes spuriously); it then takes the mutex     *)
(* again and tests its predicate.  A condition variable is the set of the  *)
(* threads asleep in it.  notify_one wakes any one of them: the thread it  *)
(* wakes is the parameter w (NoThread when nobody sleeps).                 *)
(***************************************************************************)
NoThread == "nobody"
NoItem == 0

NewMessageQueue(max_size) ==
    [queue_ |-> <<>>, max_size_ |-> max_size, shutdown_ |-> FALSE,
     not_empty_ |-> {}, not_full_ |-> {}]

\* the threads notify_one may wake
Wakeable(waiters) == IF waiters = {} THEN {NoThread} ELSE waiters

notify_one(waiters, w) == waiters \ {w}

notify_all(waiters) == {}

\* push: the predicate of not_full_.wait fails, the caller sleeps
push_blocks(m) ==
    /\ m.max_size_ > 0
    /\ ~(Len(m.queue_) < m.max_size_ \/ m.shutdown_)

\* push, after the wait
push_after_wait(m, item, w) ==
    IF m.shutdown_ THEN [m |-> m, ret |-> FALSE]
    ELSE [m |-> [m EXCEPT !.queue_ = Append(@, item), !.not_empty_ = notify_one(@, w)],
          ret |-> TRUE]

\* try_push that tests the bound with > instead of >=
try_push_enqueue_and_refuse(m, item, w) ==
    IF m.shutdown_ THEN [m |-> m, ret |-> FALSE]
    ELSE IF m.max_size_ > 0 /\ Len(m.queue_) >= m.max_size_ THEN [m |-> m, ret |-> FALSE]
    ELSE [m |-> [m EXCEPT !.queue_ = Append(@, item), !.not_empty_ = notify_one(@, w)],
          ret |-> FALSE]

try_push_silent_drop(m, item, w) ==
    IF m.shutdown_ THEN [m |-> m, ret |-> FALSE]
    ELSE IF m.max_size_ > 0 /\ Len(m.queue_) >= m.max_size_ THEN [m |-> m, ret |-> TRUE]
    ELSE [m |-> [m EXCEPT !.queue_ = Append(@, item), !.not_empty_ = notify_one(@, w)],
          ret |-> TRUE]

try_push_off_by_one(m, item, w) ==
    IF m.shutdown_ THEN [m |-> m, ret |-> FALSE]
    ELSE IF m.max_size_ > 0 /\ Len(m.queue_) > m.max_size_ THEN [m |-> m, ret |-> FALSE]
    ELSE [m |-> [m EXCEPT !.queue_ = Append(@, item), !.not_empty_ = notify_one(@, w)],
          ret |-> TRUE]

try_push(m, item, w) ==
    IF m.shutdown_ THEN [m |-> m, ret |-> FALSE]
    ELSE IF m.max_size_ > 0 /\ Len(m.queue_) >= m.max_size_ THEN [m |-> m, ret |-> FALSE]
    ELSE [m |-> [m EXCEPT !.queue_ = Append(@, item), !.not_empty_ = notify_one(@, w)],
          ret |-> TRUE]

\* pop: the predicate of not_empty_.wait fails, the caller sleeps
pop_blocks(m) == ~(m.queue_ # <<>> \/ m.shutdown_)

\* pop that takes the newest item
pop_after_wait_lifo(m, w) ==
    IF m.queue_ = <<>> THEN [m |-> m, ret |-> NoItem]
    ELSE [m |-> [m EXCEPT !.queue_ = SubSeq(@, 1, Len(@) - 1),
                          !.not_full_ = IF m.max_size_ > 0 THEN notify_one(@, w) ELSE @],
          ret |-> m.queue_[Len(m.queue_)]]

\* pop, after the wait: the item, or NoItem for std::nullopt
pop_after_wait(m, w) ==
    IF m.queue_ = <<>> THEN [m |-> m, ret |-> NoItem]
    ELSE [m |-> [m EXCEPT !.queue_ = Tail(@),
                          !.not_full_ = IF m.max_size_ > 0 THEN notify_one(@, w) ELSE @],
          ret |-> Head(m.queue_)]

try_pop(m, w) ==
    IF m.queue_ = <<>> THEN [m |-> m, ret |-> NoItem]
    ELSE [m |-> [m EXCEPT !.queue_ = Tail(@),
                          !.not_full_ = IF m.max_size_ > 0 THEN notify_one(@, w) ELSE @],
          ret |-> Head(m.queue_)]

\* shutdown that forgets the producers
shutdown_without_wakeup(m) == [m EXCEPT !.shutdown_ = TRUE]

shutdown_without_not_full(m) ==
    [m EXCEPT !.shutdown_ = TRUE, !.not_empty_ = notify_all(@)]

shutdown(m) ==
    [m EXCEPT !.shutdown_ = TRUE, !.not_empty_ = notify_all(@),
              !.not_full_ = notify_all(@)]

clear(m) == [m EXCEPT !.queue_ = <<>>, !.not_full_ = notify_all(@)]

\* acquire() returning nullptr
NullSlot == -1

\* TickPool(capacity): pool_ is kept as its size, a slot as its index
NewTickPool(capacity) == [kind |-> "TickPool", pool_size |-> capacity, next_index_ |-> 0]

tick_pool_acquire_past_end(p) ==
    IF p.next_index_ > p.pool_size THEN [pool |-> p, ret |-> NullSlot]
    ELSE [pool |-> [p EXCEPT !.next_index_ = @ + 1], ret |-> p.next_index_]

\* TickPool::acquire
tick_pool_acquire(p) ==
    IF p.next_index_ >= p.pool_size THEN [pool |-> p, ret |-> NullSlot]
    ELSE [pool |-> [p EXCEPT !.next_index_ = @ + 1], ret |-> p.next_index_]

\* TickPool::reset
tick_pool_reset(p) == [p EXCEPT !.next_index_ = 0]

NewFlyweightTickPool(capacity) ==
    [kind |-> "FlyweightTickPool", pool_size |-> capacity, next_index_ |-> 0]

\* FlyweightTickPool::acquire
flyweight_acquire(p) ==
    IF p.next_index_ >= p.pool_size THEN [pool |-> p, ret |-> NullSlot]
    ELSE [pool |-> [p EXCEPT !.next_index_ = @ + 1], ret |-> p.next_index_]

flyweight_reset_keep_index(p) == p

\* FlyweightTickPool::reset
flyweight_reset(p) == [p EXCEPT !.next_index_ = 0]

\* Tick::is_valid
tick_is_valid(p, t) ==
    /\ t.symbol_size > 0
    /\ t.price > 0
    /\ t.qty > 0
    /\ (t.side = SIDE_B \/ t.side = SIDE_S)

\* FSMFixParser::is_parsing
is_parsing_negated(p) == ~(p.state # "WAIT_TAG" \/ p.current_tag # 0)

is_parsing(p) == p.state # "WAIT_TAG" \/ p.current_tag # 0

(***************************************************************************)
(* Input streams.  A stream is a concatenation of messages taken from a    *)
(* table; each message is a list of tag=value fields, each followed by a   *)
(* delimiter, and an ending.                                               *)
(***************************************************************************)
\* the fields the messages are built from, by tag and value
F ==
    [F_8 |-> <<56, 61, 70, 73, 88>>,  \* 8=FIX
     F_55_A |-> <<53, 53, 61, 65>>,  \* 55=A
     F_55_BC |-> <<53, 53, 61, 66, 67>>,  \* 55=BC
     F_55_D |-> <<53, 53, 61, 68>>,  \* 55=D
     F_55_E |-> <<53, 53, 61, 69>>,  \* 55=E
     F_44_A |-> <<52, 52, 61, 49, 46, 53>>,  \* 44=1.5
     F_44_BC |-> <<52, 52, 61, 50, 46, 50, 53>>,  \* 44=2.25
     F_44_D |-> <<52, 52, 61, 48, 46, 53>>,  \* 44=0.5
     F_44_E |-> <<52, 52, 61, 51>>,  \* 44=3
     F_38_7 |-> <<51, 56, 61, 55>>,  \* 38=7
     F_38_30 |-> <<51, 56, 61, 51, 48>>,  \* 38=30
     F_38_1 |-> <<51, 56, 61, 49>>,  \* 38=1
     F_38_0 |-> <<51, 56, 61, 48>>,  \* 38=0
     F_54_1 |-> <<53, 52, 61, 49>>,  \* 54=1
     F_54_2 |-> <<53, 52, 61, 50>>,  \* 54=2
     F_54_9 |-> <<53, 52, 61, 57>>,  \* 54=9
     F_58 |-> <<53, 56, 61, 120>>,  \* 58=x
     F_10 |-> <<49, 48, 61, 49>>,  \* 10=1
     F_44_ABC |-> <<52, 52, 61, 65, 66, 67, 46, 88>>,  \* 44=ABC.X
     F_38_EQ |-> <<51, 56, 61>>,  \* 38=
     F_55_EQ |-> <<53, 53, 61>>,  \* 55=
     F_EQ_X |-> <<61, 120>>]  \* =x

\* byte runs that are no part of a message
GARBAGE ==
    <<<<71, 65, 82, 66, 65, 71, 69, 95>>,  \* GARBAGE_
      <<71, 95, 56, 61, 70, 73, 95, 56, 61, 70, 95>>,  \* G_8=FI_8=F_
      <<56, 56>>,  \* 88
      <<88, 56, 61, 70, 73>>,  \* X8=FI
      <<71, 52, 82, 56>>,  \* G4R8
      <<95, 56, 61, 56, 61, 70>>,  \* _8=8=F
      <<10, 124, 88>>,  \* \n|X
      <<70, 73, 88, 56, 61>>>>  \* FIX8=

\* n copies of the byte c
Repeat(c, n) == [i \in 1..n |-> c]

\* the fields of fs, each followed by the delimiter d
RECURSIVE Fields(_, _)
Fields(fs, d) ==
    IF Len(fs) = 0 THEN <<>> ELSE Head(fs) \o <<d>> \o Fields(Tail(fs), d)

\* the message table: the bytes, what the message is, and the tick a
\* complete message describes (price in units of 1/10000)
Messages ==
    [V1 |-> [bytes |-> Fields(<<F.F_55_A, F.F_44_A, F.F_38_7, F.F_54_1, F.F_10>>, CH_PIPE),
             kind |-> "valid", symbol |-> <<65>>, price |-> 15000, qty |-> 7,
             side |-> SIDE_B],
     V2 |-> [bytes |-> Fields(<<F.F_8, F.F_55_BC, F.F_44_BC, F.F_38_30, F.F_54_2, F.F_10>>,
                              CH_PIPE) \o <<CH_LF>>,
             kind |-> "valid", symbol |-> <<66, 67>>, price |-> 22500, qty |-> 30,
             side |-> SIDE_S],
     V3 |-> [bytes |-> Fields(<<F.F_38_1, F.F_55_D, F.F_54_1, F.F_44_D, F.F_10>>, CH_SOH),
             kind |-> "valid", symbol |-> <<68>>, price |-> 5000, qty |-> 1,
             side |-> SIDE_B],
     ZQ |-> [bytes |-> Fields(<<F.F_55_A, F.F_44_A, F.F_38_0, F.F_54_1, F.F_10>>, CH_PIPE),
             kind |-> "zero_qty", symbol |-> <<65>>, price |-> 15000, qty |-> 0,
             side |-> SIDE_B],
     BS |-> [bytes |-> Fields(<<F.F_55_A, F.F_44_A, F.F_38_7, F.F_54_9, F.F_10>>, CH_PIPE),
             kind |-> "bad_side", symbol |-> <<65>>, price |-> 15000, qty |-> 7,
             side |-> SIDE_NONE],
     NS |-> [bytes |-> Fields(<<F.F_44_A, F.F_38_7, F.F_54_1, F.F_10>>, CH_PIPE),
             kind |-> "missing", symbol |-> <<>>, price |-> 15000, qty |-> 7,
             side |-> SIDE_B],
     NQ |-> [bytes |-> Fields(<<F.F_55_A, F.F_44_A, F.F_54_1, F.F_10>>, CH_PIPE),
             kind |-> "missing", symbol |-> <<65>>, price |-> 15000, qty |-> 0,
             side |-> SIDE_B],
     LV |-> [bytes |-> Fields(<<F.F_55_E, F.F_44_E, F.F_38_7, F.F_54_2>>, CH_PIPE)
                       \o F.F_58 \o <<CH_LF>>,
             kind |-> "lf_value", symbol |-> <<69>>, price |-> 30000, qty |-> 7,
             side |-> SIDE_S],
     LD |-> [bytes |-> Fields(<<F.F_55_E, F.F_44_E, F.F_38_7, F.F_54_2>>, CH_PIPE) \o <<CH_LF>>,
             kind |-> "lf_after_delimiter", symbol |-> <<69>>, price |-> 30000,
             qty |-> 7, side |-> SIDE_S],
     V4 |-> [bytes |-> Fields(<<F.F_8, F.F_38_1, F.F_55_D, F.F_54_1, F.F_44_D, F.F_10>>, CH_PIPE)
                       \o <<CH_LF>>,
             kind |-> "valid", symbol |-> <<68>>, price |-> 5000, qty |-> 1,
             side |-> SIDE_B],
     \* a quantity, a symbol and a tag longer than their scratch by Overflow
     \* bytes; field_at is the index of the first byte of the long value or
     \* tag, resync the index of the delimiter that ends that field
     TQ |-> [bytes |-> Fields(<<F.F_55_A, F.F_44_A,
                                F.F_38_EQ \o Repeat(CH_0 + 1, VALUE_BUFFER_SIZE - 1 + Overflow),
                                F.F_54_1, F.F_10>>, CH_PIPE),
             kind |-> "overflow", symbol |-> <<65>>, price |-> 15000,
             qty |-> INT32_MAX, side |-> SIDE_B,
             part |-> "value", field_at |-> 5 + 7 + 3 + 1,
             resync |-> 5 + 7 + 3 + VALUE_BUFFER_SIZE - 1 + Overflow + 1],
     TS |-> [bytes |-> Fields(<<F.F_55_EQ \o Repeat(65, VALUE_BUFFER_SIZE - 1 + Overflow),
                                F.F_44_A, F.F_38_7, F.F_54_1, F.F_10>>, CH_PIPE),
             kind |-> "overflow", symbol |-> <<>>, price |-> 15000, qty |-> 7,
             side |-> SIDE_B,
             part |-> "value", field_at |-> 3 + 1,
             resync |-> 3 + VALUE_BUFFER_SIZE - 1 + Overflow + 1],
     TT |-> [bytes |-> Fields(<<Repeat(CH_0 + 5, TAG_BUFFER_SIZE - 1 + Overflow) \o F.F_EQ_X,
                                F.F_55_A, F.F_44_A, F.F_38_7, F.F_54_1, F.F_10>>, CH_PIPE),
             kind |-> "overflow", symbol |-> <<65>>, price |-> 15000, qty |-> 7,
             side |-> SIDE_B,
             part |-> "tag", field_at |-> 1,
             resync |-> TAG_BUFFER_SIZE - 1 + Overflow + 2 + 1],
     \* a price that is no number
     NP |-> [bytes |-> Fields(<<F.F_55_A, F.F_44_ABC, F.F_38_7, F.F_54_1, F.F_10>>, CH_PIPE),
             kind |-> "bad_price", symbol |-> <<65>>, price |-> 0, qty |-> 7,
             side |-> SIDE_B],
     \* symbols of one byte less than the symbol slot, of its size, and longer
     \* than it: 55, 44, 38 and 54 are all written
     L0 |-> [bytes |-> Fields(<<F.F_55_EQ \o Repeat(65, SYMBOL_STORAGE_SIZE - 1),
                                F.F_44_A, F.F_38_7, F.F_54_1, F.F_10>>, CH_PIPE),
             kind |-> "valid", symbol |-> Repeat(65, SYMBOL_STORAGE_SIZE - 1),
             price |-> 15000, qty |-> 7, side |-> SIDE_B],
     L1 |-> [bytes |-> Fields(<<F.F_55_EQ \o Repeat(65, SYMBOL_STORAGE_SIZE),
                                F.F_44_A, F.F_38_7, F.F_54_1, F.F_10>>, CH_PIPE),
             kind |-> "long_symbol", symbol |-> <<>>, price |-> 15000, qty |-> 7,
             side |-> SIDE_B],
     L2 |-> [bytes |-> Fields(<<F.F_55_EQ \o Repeat(65, SYMBOL_STORAGE_SIZE - 1 + Overflow),
                                F.F_44_A, F.F_38_7, F.F_54_1, F.F_10>>, CH_PIPE),
             kind |-> "long_symbol", symbol |-> <<>>, price |-> 15000, qty |-> 7,
             side |-> SIDE_B],
     G1 |-> [bytes |-> GARBAGE[1], kind |-> "garbage"],
     G2 |-> [bytes |-> GARBAGE[2], kind |-> "garbage"],
     G3 |-> [bytes |-> GARBAGE[3], kind |-> "garbage"],
     G4 |-> [bytes |-> GARBAGE[4], kind |-> "garbage"],
     G5 |-> [bytes |-> GARBAGE[5], kind |-> "garbage"],
     G6 |-> [bytes |-> GARBAGE[6], kind |-> "garbage"],
     G7 |-> [bytes |-> GARBAGE[7], kind |-> "garbage"],
     G8 |-> [bytes |-> GARBAGE[8], kind |-> "garbage"]]

ShortIds == {"V1", "V2", "V3", "ZQ", "BS", "NS", "NQ", "LV", "LD"}
OverflowIds == {"TQ", "TS", "TT"}
GarbageIds == {"G1", "G2", "G3", "G4", "G5", "G6", "G7", "G8"}
\* valid messages that begin with the anchor 8=FIX
AnchoredIds == {"V2", "V4"}
\* messages that hold 55, 44, 38, 54 and 10, a value or the symbol's length
\* at an edge
EdgeIds == {"ZQ", "BS", "NP", "L0", "L1", "L2"}

RECURSIVE Concat(_)
Concat(ms) ==
    IF Len(ms) = 0 THEN <<>> ELSE Messages[Head(ms)].bytes \o Concat(Tail(ms))

\* offset in the stream at which message k of ms starts / ends
RECURSIVE MsgEnd(_, _)
MsgEnd(ms, k) == IF k = 0 THEN 0 ELSE MsgEnd(ms, k - 1) + Len(Messages[ms[k]].bytes)

MsgStart(ms, k) == MsgEnd(ms, k - 1)

\* sequences of exactly n / of 1..n message ids
RECURSIVE SeqsOf(_, _)
SeqsOf(ids, n) ==
    IF n = 0 THEN {<<>>} ELSE {Append(ms, id) : ms \in SeqsOf(ids, n - 1), id \in ids}

SeqsUpTo(ids, n) == UNION {SeqsOf(ids, k) : k \in 1..n}

(***************************************************************************)
(* State.  msgs/stream/pos are the input: the messages of the stream, its  *)
(* bytes, and how many of them have been handed to parse().  parser and    *)
(* ticks are the FSMFixParser and the caller's output vector.              *)
(***************************************************************************)
\* msgs, stream, pos: the input and how much of it was fed; parser, ticks:
\* the FSMFixParser and the caller's vector; garbage_recovery_enabled,
\* recovery_stats: the parser's recovery members; pc: the position of the
\* recovery driver; rb, rb_ops: a ReceiveBuffer and the calls made on it;
\* rb_written, rb_consumed, rb_truncated: what its caller has seen since the
\* last reset: the bytes the writes accepted, how many bytes the consumes
\* asked to drop (at most what was left), whether a write returned short;
\* mq: a MessageQueue; mq_pc: the call each thread is inside; mq_ret: what
\* each thread's last call returned; mq_next: the next item to push;
\* mq_accepted, mq_popped: the items in the order they were enqueued and
\* dequeued; mq_cleared: clear() has been called;
\* running_, stats_: the members of a ThreadedFeedHandler (its queue is mq,
\* its parser is parser); script: the buffers its caller injects, each a
\* sequence of message ids; main_pc, inject_pc, network_pc, parser_pc: where
\* the thread calling start() and stop(), the thread calling inject_data,
\* the network thread and the parser thread are; inject_next: the script
\* entry of the next inject_data call; parser_item: the buffer the parser
\* thread popped; delivered: the ticks handed to the callback, in order;
\* pool: a TickPool or a FlyweightTickPool; pool_seen: what its caller has
\* seen of it;
\* inject_passed: the number of inject_data calls that found running_ set;
\* call_in, call_out: the argument and the result of a parsing function
\* called on its own;
\* quiet_stop: no inject_data call was in progress when stop() cleared
\* running_;
\* handler_stats: stats_ of a StreamingFixHandler (its buffer_ is rb, its
\* parser_ is parser); compactions: the number of its process_buffer calls
\* whose consume compacted the buffer;
\* bids_, asks_: the two maps of an OrderBook, each as the sequence of its
\* levels in iteration order; book_ops: the number of calls made on it;
\* book_last: the last call and what it found
VARIABLES msgs, stream, pos, parser, ticks,
          garbage_recovery_enabled, recovery_stats, pc,
          rb, rb_ops, rb_written, rb_consumed, rb_truncated,
          mq, mq_pc, mq_ret, mq_next, mq_accepted, mq_popped, mq_cleared,
          running_, stats_, script, main_pc, inject_pc, inject_next, network_pc,
          parser_pc, parser_item, delivered, quiet_stop, inject_passed,
          pool, pool_seen, call_in, call_out,
          handler_stats, compactions, bids_, asks_, book_ops, book_last

vars == <<msgs, stream, pos, parser, ticks,
          garbage_recovery_enabled, recovery_stats, pc,
          rb, rb_ops, rb_written, rb_consumed, rb_truncated,
          mq, mq_pc, mq_ret, mq_next, mq_accepted, mq_popped, mq_cleared,
          running_, stats_, script, main_pc, inject_pc, inject_next, network_pc,
          parser_pc, parser_item, delivered, quiet_stop, inject_passed,
          pool, pool_seen, call_in, call_out,
          handler_stats, compactions, bids_, asks_, book_ops, book_last>>

parser_vars == <<msgs, stream, pos, parser, ticks>>
recovery_vars == <<garbage_recovery_enabled, recovery_stats, pc>>
rb_vars == <<rb, rb_ops, rb_written, rb_consumed, rb_truncated>>
mq_vars == <<mq, mq_pc, mq_ret, mq_next, mq_accepted, mq_popped, mq_cleared>>
pipe_vars == <<running_, stats_, script, main_pc, inject_pc, inject_next, network_pc,
               parser_pc, parser_item, delivered, quiet_stop, inject_passed>>
pool_vars == <<pool, pool_seen>>
call_vars == <<call_in, call_out>>
stream_vars == <<handler_stats, compactions>>
book_vars == <<bids_, asks_, book_ops, book_last>>
late_vars == <<stream_vars, book_vars>>
more_vars == <<pool_vars, call_vars, late_vars>>
thread_vars == <<mq_vars, pipe_vars, more_vars>>

MaxChunk == 3

\* the threads that call a MessageQueue
Producers == {"p1", "p2"}
Consumers == {"c1", "c2"}
QueueThreads == Producers \cup Consumers

\* a thread outside every queue call, and one that has not returned from
\* any yet
IdleCall == [op |-> "idle", item |-> NoItem]
NoReturn == [op |-> "none", val |-> NoItem]

\* no thread uses a queue
IdleQueue ==
    /\ mq = NewMessageQueue(0)
    /\ mq_pc = [t \in QueueThreads |-> IdleCall]
    /\ mq_ret = [t \in QueueThreads |-> NoReturn]
    /\ mq_next = 1
    /\ mq_accepted = <<>>
    /\ mq_popped = <<>>
    /\ mq_cleared = FALSE

NewStatistics ==
    [bytes_received |-> 0, messages_parsed |-> 0, parse_errors |-> 0,
     queue_overflows |-> 0, network_reads |-> 0, parser_cycles |-> 0]

\* no ThreadedFeedHandler exists
IdlePipeline ==
    /\ running_ = FALSE
    /\ stats_ = NewStatistics
    /\ script = <<>>
    /\ main_pc = "constructed"
    /\ inject_pc = "idle"
    /\ inject_next = 1
    /\ network_pc = "off"
    /\ parser_pc = "off"
    /\ parser_item = NoItem
    /\ delivered = <<>>
    /\ quiet_stop = FALSE
    /\ inject_passed = 0

\* what a caller of a pool has seen: the slots handed out since the last
\* reset, the last call and what it returned, the number of calls and of
\* resets, and whether the last reset found the pool full
NothingSeen ==
    [out |-> <<>>, op |-> "none", ret |-> NullSlot, ops |-> 0, resets |-> 0,
     reset_full |-> FALSE]

\* no pool exists
IdlePool ==
    /\ pool = NewTickPool(0)
    /\ pool_seen = NothingSeen

\* the result slot of a function that was not called yet
NotCalled == [op |-> "none", trapped |-> FALSE, val |-> 0]

\* no function is under test
IdleCalls ==
    /\ call_in = <<>>
    /\ call_out = NotCalled

\* Stats as constructed (streaming_fix_handler.hpp)
NewStats ==
    [total_bytes_received |-> 0, total_messages_parsed |-> 0, total_parse_calls |-> 0,
     buffer_compactions |-> 0]

\* no StreamingFixHandler exists
IdleStream ==
    /\ handler_stats = NewStats
    /\ compactions = 0

\* no call was made on the book yet
NoBookCall == [op |-> "none", side |-> "BID", price |-> 0, quantity |-> 0, found |-> FALSE]

\* no OrderBook exists
IdleBook ==
    /\ bids_ = <<>>
    /\ asks_ = <<>>
    /\ book_ops = 0
    /\ book_last = NoBookCall

IdleLate == IdleStream /\ IdleBook

IdleMore == IdlePool /\ IdleCalls /\ IdleLate

IdleThreads == IdleQueue /\ IdlePipeline /\ IdleMore

\* a parser fed by plain parse calls: the recovery members are never read
\* (parse ignores them) and no ReceiveBuffer call is made
IdleRecovery ==
    /\ garbage_recovery_enabled = FALSE
    /\ recovery_stats = NewRecoveryStats
    /\ pc = "feed"

IdleBuffer ==
    /\ rb = NewReceiveBuffer
    /\ rb_ops = 0
    /\ rb_written = <<>>
    /\ rb_consumed = 0
    /\ rb_truncated = FALSE

Init ==
    /\ IdleRecovery
    /\ IdleBuffer
    /\ IdleThreads
    /\ msgs \in SeqsUpTo(ShortIds, MaxMsgs)
    /\ stream = Concat(msgs)
    /\ pos = 0
    /\ parser = NewParser
    /\ ticks = <<>>

\* the end of the message that holds byte pos + 1
NextBoundary ==
    LET k == CHOOSE j \in 1..Len(msgs) : MsgStart(msgs, j) <= pos /\ pos < MsgEnd(msgs, j)
    IN MsgEnd(msgs, k)

\* lengths of the slices handed to one parse call: short fragments, the
\* rest of the current message, or the whole buffer at once
ChunkSizes ==
    IF pos >= Len(stream) THEN {}
    ELSE (1..Min(MaxChunk, Len(stream) - pos))
         \cup {NextBoundary - pos}
         \cup (IF pos = 0 THEN {Len(stream)} ELSE {})

\* parser.parse(stream + pos, n, ticks)
Parse(n) ==
    /\ pos + n <= Len(stream)
    /\ LET r == parse(parser, ticks, SubSeq(stream, pos + 1, pos + n))
       IN /\ parser' = r[1]
          /\ ticks' = r[2]
    /\ pos' = pos + parse_return(parser, SubSeq(stream, pos + 1, pos + n))
    /\ UNCHANGED <<msgs, stream, recovery_vars, rb_vars, thread_vars>>

Next == \E n \in ChunkSizes : Parse(n)

Spec == Init /\ [][Next]_vars

(***************************************************************************)
(* SpecTrunc: the same feeding of fragments, on a stream that starts with  *)
(* a message whose value or tag is longer than its scratch.                *)
(***************************************************************************)
InitTrunc ==
    /\ IdleRecovery
    /\ IdleBuffer
    /\ IdleThreads
    /\ msgs \in {<<t, v>> : t \in OverflowIds, v \in {"V1", "V2", "V3"}}
    /\ stream = Concat(msgs)
    /\ pos = 0
    /\ parser = NewParser
    /\ ticks = <<>>

SpecTrunc == InitTrunc /\ [][Next]_vars

(***************************************************************************)
(* SpecEdge: the same feeding of fragments, on a stream that holds a       *)
(* message of EdgeIds alone, before or after a valid message.              *)
(***************************************************************************)
InitEdge ==
    /\ IdleRecovery
    /\ IdleBuffer
    /\ IdleThreads
    /\ msgs \in {<<e>> : e \in EdgeIds}
                \cup {<<e, v>> : e \in EdgeIds, v \in {"V1", "V3"}}
                \cup {<<v, e>> : e \in EdgeIds, v \in {"V1", "V3"}}
    /\ stream = Concat(msgs)
    /\ pos = 0
    /\ parser = NewParser
    /\ ticks = <<>>

SpecEdge == InitEdge /\ [][Next]_vars

(***************************************************************************)
(* SpecReset: fragments fed to a parser that is reset up to MaxResets      *)
(* times, at any offset; the bytes after the reset are the later input.    *)
(* call_out.val records the last reset: the offset, the ticks emitted      *)
(* before it, and the state and the builder the reset found.               *)
(***************************************************************************)
MaxResets == 2

ResetStreams ==
    LET ids == {"V1", "NS", "LV"}
    IN {<<a>> : a \in ids} \cup {<<a, b>> : a \in ids, b \in {"V1", "V2"}}

NoResetYet ==
    [op |-> "none", trapped |-> FALSE,
     val |-> [resets |-> 0, at |-> 0, had |-> 0, from |-> "WAIT_TAG", held |-> FALSE]]

InitReset ==
    /\ IdleRecovery
    /\ IdleBuffer
    /\ IdleQueue
    /\ IdlePipeline
    /\ IdlePool
    /\ IdleLate
    /\ msgs \in ResetStreams
    /\ stream = Concat(msgs)
    /\ pos = 0
    /\ parser = NewParser
    /\ ticks = <<>>
    /\ call_in = <<>>
    /\ call_out = NoResetYet

\* parser.reset()
ResetParser ==
    /\ call_out.val.resets < MaxResets
    /\ parser' = parser_reset(parser)
    /\ call_out' = [op |-> "reset", trapped |-> FALSE,
                    val |-> [resets |-> call_out.val.resets + 1, at |-> pos,
                             had |-> Len(ticks), from |-> parser.state,
                             held |-> \/ parser.tick_builder.has_symbol
                                      \/ parser.tick_builder.has_price
                                      \/ parser.tick_builder.has_qty
                                      \/ parser.tick_builder.has_side]]
    /\ UNCHANGED <<msgs, stream, pos, ticks, call_in, recovery_vars, rb_vars, mq_vars,
                   pipe_vars, pool_vars, late_vars>>

NextReset == Next \/ ResetParser

SpecReset == InitReset /\ [][NextReset]_vars

(***************************************************************************)
(* SpecRecovery: the driver of test_garbage_recovery.cpp on a stream of    *)
(* garbage followed by one message that starts with the anchor.  The       *)
(* constructor leaves garbage_recovery_enabled_ uninitialised; the driver  *)
(* sets it before the loop reads it.                                       *)
(***************************************************************************)
InitRecovery ==
    /\ garbage_recovery_enabled \in BOOLEAN
    /\ recovery_stats = NewRecoveryStats
    /\ pc = "configure"
    /\ IdleBuffer
    /\ IdleThreads
    /\ msgs \in {<<g, v>> : g \in GarbageIds, v \in AnchoredIds}
    /\ stream = Concat(msgs)
    /\ pos = 0
    /\ parser = NewParser
    /\ ticks = <<>>

\* parser.set_garbage_recovery(enable)
SetGarbageRecovery(enable) ==
    /\ pc = "configure"
    /\ garbage_recovery_enabled' = enable
    /\ pc' = "loop"
    /\ UNCHANGED <<parser_vars, recovery_stats, rb_vars, thread_vars>>

\* the condition of the if in the loop
ShouldRecover ==
    /\ ~is_fix_message_start(SubSeq(stream, pos + 1, Len(stream)))
    /\ garbage_recovery_enabled
    /\ ~is_parsing(parser)

\* skip = attempt_garbage_recovery(rest); offset += skip; parser.reset();
\* continue
Recover ==
    /\ pc = "loop"
    /\ pos < Len(stream)
    /\ ShouldRecover
    /\ LET r == attempt_garbage_recovery(recovery_stats,
                                         SubSeq(stream, pos + 1, Len(stream)))
       IN /\ pos' = pos + r.skip
          /\ recovery_stats' = r.stats
    /\ parser' = parser_reset(parser)
    /\ UNCHANGED <<msgs, stream, ticks, garbage_recovery_enabled, pc, rb_vars, thread_vars>>

\* consumed = parse(rest, ticks); offset += consumed; if (consumed == 0)
\* break
ParseRest ==
    /\ pc = "loop"
    /\ pos < Len(stream)
    /\ ~ShouldRecover
    /\ LET rest == SubSeq(stream, pos + 1, Len(stream))
           r == parse(parser, ticks, rest)
       IN /\ parser' = r[1]
          /\ ticks' = r[2]
          /\ pos' = pos + Len(rest)
          /\ pc' = IF Len(rest) = 0 THEN "done" ELSE "loop"
    /\ UNCHANGED <<msgs, stream, garbage_recovery_enabled, recovery_stats, rb_vars, thread_vars>>

\* the loop ends: offset == data.size()
Finish ==
    /\ pc = "loop"
    /\ pos >= Len(stream)
    /\ pc' = "done"
    /\ UNCHANGED <<parser_vars, garbage_recovery_enabled, recovery_stats, rb_vars, thread_vars>>

NextRecovery ==
    \/ \E enable \in BOOLEAN : SetGarbageRecovery(enable)
    \/ Recover
    \/ ParseRest
    \/ Finish

SpecRecovery == InitRecovery /\ [][NextRecovery]_vars

(***************************************************************************)
(* SpecRB: any MaxOps calls of write, consume and reset on a               *)
(* ReceiveBuffer.                                                          *)
(***************************************************************************)
\* the bytes the writes take their data from
PayloadBytes == [i \in 1..(BUFFER_SIZE + 1 + MaxOps + 2 * MaxPairs) |-> 1 + (i % 251)]

\* the data of the write made as call number k + 1
Payload(k, len) == SubSeq(PayloadBytes, k + 1, k + len)

WriteLens == {0, 1, BUFFER_SIZE \div 2 - 1, BUFFER_SIZE \div 2 + 1, BUFFER_SIZE + 1}
ConsumeLens == {0, 1, BUFFER_SIZE \div 2, BUFFER_SIZE \div 2 + 1, BUFFER_SIZE + 1}

InitRB ==
    /\ IdleRecovery
    /\ IdleBuffer
    /\ IdleThreads
    /\ msgs = <<>>
    /\ stream = <<>>
    /\ pos = 0
    /\ parser = NewParser
    /\ ticks = <<>>

\* what the caller of buf.write(data, len) sees: the returned count of
\* accepted bytes
Wrote(data, ret) ==
    /\ rb_written' = rb_written \o SubSeq(data, 1, ret)
    /\ rb_truncated' = (rb_truncated \/ ret < Len(data))

\* what the caller of buf.consume(len) asked for
Consumed(len) ==
    rb_consumed' = rb_consumed + Min(len, Len(rb_written) - rb_consumed)

Write(len) ==
    /\ rb_ops < MaxOps
    /\ LET data == Payload(rb_ops, len)
           r == write(rb, data)
       IN /\ rb' = r.rb
          /\ Wrote(data, r.ret)
    /\ rb_ops' = rb_ops + 1
    /\ UNCHANGED <<parser_vars, recovery_vars, rb_consumed, thread_vars>>

Consume(len) ==
    /\ rb_ops < MaxOps
    /\ rb' = consume(rb, len)
    /\ Consumed(len)
    /\ rb_ops' = rb_ops + 1
    /\ UNCHANGED <<parser_vars, recovery_vars, rb_written, rb_truncated, thread_vars>>

Reset ==
    /\ rb_ops < MaxOps
    /\ rb' = receive_buffer_reset(rb)
    /\ rb_written' = <<>>
    /\ rb_consumed' = 0
    /\ rb_truncated' = FALSE
    /\ rb_ops' = rb_ops + 1
    /\ UNCHANGED <<parser_vars, recovery_vars, thread_vars>>

NextRB ==
    \/ \E len \in WriteLens : Write(len)
    \/ \E len \in ConsumeLens : Consume(len)
    \/ Reset

SpecRB == InitRB /\ [][NextRB]_vars

(***************************************************************************)
(* SpecPairs: a caller that writes a block and consumes it whole before    *)
(* the next one, as process_incoming_data / process_buffer do with the     *)
(* bytes they are given (parse consumes all it is handed).  Every block    *)
(* fits the capacity.                                                      *)
(***************************************************************************)
PairLens ==
    {1, BUFFER_SIZE \div 2 - 1, BUFFER_SIZE \div 2, BUFFER_SIZE \div 2 + 1, BUFFER_SIZE}

\* buf.write(x, len); buf.consume(len)
WriteThenConsume(len) ==
    /\ rb_ops < 2 * MaxPairs
    /\ LET data == Payload(rb_ops, len)
           r == write(rb, data)
       IN /\ rb' = consume(r.rb, len)
          /\ rb_written' = rb_written \o SubSeq(data, 1, r.ret)
          /\ rb_truncated' = (rb_truncated \/ r.ret < len)
          /\ rb_consumed' = rb_consumed + Min(len, Len(rb_written) + r.ret - rb_consumed)
    /\ rb_ops' = rb_ops + 2
    /\ UNCHANGED <<parser_vars, recovery_vars, thread_vars>>

NextPairs == \E len \in PairLens : WriteThenConsume(len)

SpecPairs == InitRB /\ [][NextPairs]_vars

(***************************************************************************)
(* SpecMQ: producers and consumers calling one MessageQueue, with clear()  *)
(* and shutdown() called at any time.  At most MaxItems pushes are         *)
(* started.                                                                *)
(***************************************************************************)
InitMQ ==
    /\ IdleRecovery
    /\ IdleBuffer
    /\ msgs = <<>>
    /\ stream = <<>>
    /\ pos = 0
    /\ parser = NewParser
    /\ ticks = <<>>
    /\ mq \in {NewMessageQueue(n) : n \in 0..MaxQueueSize}
    /\ mq_pc = [t \in QueueThreads |-> IdleCall]
    /\ mq_ret = [t \in QueueThreads |-> NoReturn]
    /\ mq_next = 1
    /\ mq_accepted = <<>>
    /\ mq_popped = <<>>
    /\ mq_cleared = FALSE
    /\ IdlePipeline
    /\ IdleMore

other_vars == <<parser_vars, recovery_vars, rb_vars, pipe_vars, more_vars>>

\* the rest of push once the wait is over; ret is its return value
FinishPush(t, item) ==
    \E w \in Wakeable(mq.not_empty_) :
        LET r == push_after_wait(mq, item, w)
        IN /\ mq' = r.m
           /\ mq_ret' = [mq_ret EXCEPT ![t] = [op |-> "push", val |-> r.ret]]
           /\ mq_accepted' = IF r.ret THEN Append(mq_accepted, item) ELSE mq_accepted
           /\ mq_pc' = [mq_pc EXCEPT ![t] = IdleCall]

\* thread t goes to sleep in not_full_, inside push(item)
SleepInPush(t, item) ==
    /\ mq' = [mq EXCEPT !.not_full_ = @ \cup {t}]
    /\ mq_pc' = [mq_pc EXCEPT ![t] = [op |-> "push", item |-> item]]
    /\ UNCHANGED <<mq_ret, mq_accepted>>

\* queue.push(item) is called
Push(t) ==
    /\ mq_pc[t] = IdleCall
    /\ mq_next <= MaxItems
    /\ mq_next' = mq_next + 1
    /\ IF push_blocks(mq) THEN SleepInPush(t, mq_next) ELSE FinishPush(t, mq_next)
    /\ UNCHANGED <<mq_popped, mq_cleared, other_vars>>

\* a thread woken in not_full_.wait has the mutex again and tests the
\* predicate
PushWake(t) ==
    /\ mq_pc[t].op = "push"
    /\ t \notin mq.not_full_
    /\ IF push_blocks(mq) THEN SleepInPush(t, mq_pc[t].item)
       ELSE FinishPush(t, mq_pc[t].item)
    /\ UNCHANGED <<mq_next, mq_popped, mq_cleared, other_vars>>

TryPush(t) ==
    /\ mq_pc[t] = IdleCall
    /\ mq_next <= MaxItems
    /\ mq_next' = mq_next + 1
    /\ \E w \in Wakeable(mq.not_empty_) :
         LET r == try_push(mq, mq_next, w)
         IN /\ mq' = r.m
            /\ mq_ret' = [mq_ret EXCEPT ![t] = [op |-> "try_push", val |-> r.ret]]
            /\ mq_accepted' = IF r.ret THEN Append(mq_accepted, mq_next) ELSE mq_accepted
    /\ UNCHANGED <<mq_pc, mq_popped, mq_cleared, other_vars>>

\* the rest of pop once the wait is over
FinishPop(t) ==
    \E w \in Wakeable(mq.not_full_) :
        LET r == pop_after_wait(mq, w)
        IN /\ mq' = r.m
           /\ mq_ret' = [mq_ret EXCEPT ![t] = [op |-> "pop", val |-> r.ret]]
           /\ mq_popped' = IF r.ret # NoItem THEN Append(mq_popped, r.ret) ELSE mq_popped
           /\ mq_pc' = [mq_pc EXCEPT ![t] = IdleCall]

SleepInPop(t) ==
    /\ mq' = [mq EXCEPT !.not_empty_ = @ \cup {t}]
    /\ mq_pc' = [mq_pc EXCEPT ![t] = [op |-> "pop", item |-> NoItem]]
    /\ UNCHANGED <<mq_ret, mq_popped>>

\* queue.pop() is called
Pop(t) ==
    /\ mq_pc[t] = IdleCall
    /\ IF pop_blocks(mq) THEN SleepInPop(t) ELSE FinishPop(t)
    /\ UNCHANGED <<mq_next, mq_accepted, mq_cleared, other_vars>>

PopWake(t) ==
    /\ mq_pc[t].op = "pop"
    /\ t \notin mq.not_empty_
    /\ IF pop_blocks(mq) THEN SleepInPop(t) ELSE FinishPop(t)
    /\ UNCHANGED <<mq_next, mq_accepted, mq_cleared, other_vars>>

TryPop(t) ==
    /\ mq_pc[t] = IdleCall
    /\ \E w \in Wakeable(mq.not_full_) :
         LET r == try_pop(mq, w)
         IN /\ mq' = r.m
            /\ mq_ret' = [mq_ret EXCEPT ![t] = [op |-> "try_pop", val |-> r.ret]]
            /\ mq_popped' = IF r.ret # NoItem THEN Append(mq_popped, r.ret) ELSE mq_popped
    /\ UNCHANGED <<mq_pc, mq_next, mq_accepted, mq_cleared, other_vars>>

\* a wait returns without a notification
SpuriousWake(t) ==
    /\ t \in mq.not_full_ \cup mq.not_empty_
    /\ mq' = [mq EXCEPT !.not_full_ = @ \ {t}, !.not_empty_ = @ \ {t}]
    /\ UNCHANGED <<mq_pc, mq_ret, mq_next, mq_accepted, mq_popped, mq_cleared, other_vars>>

Shutdown ==
    /\ mq' = shutdown(mq)
    /\ UNCHANGED <<mq_pc, mq_ret, mq_next, mq_accepted, mq_popped, mq_cleared, other_vars>>

Clear ==
    /\ mq' = clear(mq)
    /\ mq_cleared' = (mq_cleared \/ mq.queue_ # <<>>)
    /\ UNCHANGED <<mq_pc, mq_ret, mq_next, mq_accepted, mq_popped, other_vars>>

NextMQ ==
    \/ \E t \in Producers : Push(t) \/ PushWake(t) \/ TryPush(t)
    \/ \E t \in Consumers : Pop(t) \/ PopWake(t) \/ TryPop(t)
    \/ \E t \in QueueThreads : SpuriousWake(t)
    \/ Shutdown
    \/ Clear

SpecMQ == InitMQ /\ [][NextMQ]_vars

\* a thread that a notification (or a spurious wakeup) took out of a wait
\* gets the mutex and the processor in the end; nothing forces any thread to
\* start a call, and no wait ends without a notification
FairSpecMQ ==
    /\ SpecMQ
    /\ \A t \in Producers : WF_vars(PushWake(t))
    /\ \A t \in Consumers : WF_vars(PopWake(t))

(***************************************************************************)
(* SpecPipeline: a ThreadedFeedHandler with a bounded queue.  One thread   *)
(* calls start() and later stop(), another calls inject_data once per      *)
(* script entry, at any time; the network thread and the parser thread run *)
(* their loops.                                                            *)
(***************************************************************************)
ParserThread == "parser_thread"

\* N copies of one valid message, one per call; and a script with two
\* messages in one buffer
Scripts ==
    {[i \in 1..MaxInject |-> <<"V4">>], <<<<"V1", "V2">>, <<"V3">>>>}

\* the bytes of script entry i: MessageBuffer(data, length)
BufferBytes(i) == Concat(script[i])

InitPipeline ==
    /\ IdleRecovery
    /\ IdleBuffer
    /\ msgs = <<>>
    /\ stream = <<>>
    /\ pos = 0
    /\ parser = NewParser
    /\ ticks = <<>>
    /\ mq \in {NewMessageQueue(n) : n \in 1..MaxQueueSize}
    /\ mq_pc = [t \in QueueThreads |-> IdleCall]
    /\ mq_ret = [t \in QueueThreads |-> NoReturn]
    /\ mq_next = 1
    /\ mq_accepted = <<>>
    /\ mq_popped = <<>>
    /\ mq_cleared = FALSE
    /\ running_ = FALSE
    /\ stats_ = NewStatistics
    /\ script \in Scripts
    /\ main_pc = "constructed"
    /\ inject_pc = "idle"
    /\ inject_next = 1
    /\ network_pc = "off"
    /\ parser_pc = "off"
    /\ parser_item = NoItem
    /\ delivered = <<>>
    /\ quiet_stop = FALSE
    /\ inject_passed = 0
    /\ IdleMore

outside_vars == <<msgs, stream, pos, recovery_vars, rb_vars,
                  mq_pc, mq_ret, mq_next, mq_cleared, script, more_vars>>
fixed_vars == <<outside_vars, inject_passed>>

\* start(): running_ is false; set it and create the two threads
Start ==
    /\ main_pc = "constructed"
    /\ ~running_
    /\ running_' = TRUE
    /\ parser_pc' = "loop"
    /\ network_pc' = "loop"
    /\ main_pc' = "started"
    /\ UNCHANGED <<fixed_vars, parser, ticks, mq, mq_accepted, mq_popped, stats_,
                   inject_pc, inject_next, parser_item, delivered, quiet_stop>>

\* stop(): if (!running_.load()) return
StopCheck ==
    /\ main_pc = "started"
    /\ main_pc' = IF running_ THEN "stop_store" ELSE "stopped"
    /\ UNCHANGED <<fixed_vars, parser, ticks, mq, mq_accepted, mq_popped, running_,
                   stats_, inject_pc, inject_next, network_pc, parser_pc,
                   parser_item, delivered, quiet_stop>>

\* stop(): running_.store(false)
StopStore ==
    /\ main_pc = "stop_store"
    /\ running_' = FALSE
    /\ quiet_stop' = (inject_pc = "idle")
    /\ main_pc' = "stop_shutdown"
    /\ UNCHANGED <<fixed_vars, parser, ticks, mq, mq_accepted, mq_popped, stats_,
                   inject_pc, inject_next, network_pc, parser_pc, parser_item,
                   delivered>>

\* stop(): buffer_queue_.shutdown()
StopShutdown ==
    /\ main_pc = "stop_shutdown"
    /\ mq' = shutdown(mq)
    /\ main_pc' = "join_network"
    /\ UNCHANGED <<fixed_vars, parser, ticks, mq_accepted, mq_popped, running_,
                   stats_, inject_pc, inject_next, network_pc, parser_pc,
                   parser_item, delivered, quiet_stop>>

\* stop(): network_thread_->join()
StopJoinNetwork ==
    /\ main_pc = "join_network"
    /\ network_pc = "exit"
    /\ main_pc' = "join_parser"
    /\ UNCHANGED <<fixed_vars, parser, ticks, mq, mq_accepted, mq_popped, running_,
                   stats_, inject_pc, inject_next, network_pc, parser_pc,
                   parser_item, delivered, quiet_stop>>

\* stop(): parser_thread_->join(), and stop() returns
StopJoinParser ==
    /\ main_pc = "join_parser"
    /\ parser_pc = "exit"
    /\ main_pc' = "stopped"
    /\ UNCHANGED <<fixed_vars, parser, ticks, mq, mq_accepted, mq_popped, running_,
                   stats_, inject_pc, inject_next, network_pc, parser_pc,
                   parser_item, delivered, quiet_stop>>

\* inject_data: if (!running_.load()) return
InjectCheck ==
    /\ inject_pc = "idle"
    /\ inject_next <= Len(script)
    /\ IF running_
       THEN /\ inject_pc' = "push"
            /\ inject_next' = inject_next
            /\ inject_passed' = inject_passed + 1
       ELSE /\ inject_pc' = "idle"
            /\ inject_next' = inject_next + 1
            /\ inject_passed' = inject_passed
    /\ UNCHANGED <<outside_vars, parser, ticks, mq, mq_accepted, mq_popped, running_,
                   stats_, main_pc, network_pc, parser_pc, parser_item, delivered,
                   quiet_stop>>

\* inject_data: if (!buffer_queue_.try_push(buffer)) queue_overflows++
InjectPush ==
    /\ inject_pc = "push"
    /\ \E w \in Wakeable(mq.not_empty_) :
         LET r == try_push(mq, inject_next, w)
         IN /\ mq' = r.m
            /\ mq_accepted' = IF r.ret THEN Append(mq_accepted, inject_next)
                              ELSE mq_accepted
            /\ stats_' = IF r.ret THEN stats_
                         ELSE [stats_ EXCEPT !.queue_overflows = @ + 1]
    /\ inject_pc' = "count"
    /\ UNCHANGED <<fixed_vars, parser, ticks, mq_popped, running_, main_pc,
                   inject_next, network_pc, parser_pc, parser_item, delivered,
                   quiet_stop>>

\* inject_data: bytes_received += length, and the call returns
InjectCount ==
    /\ inject_pc = "count"
    /\ stats_' = [stats_ EXCEPT !.bytes_received = @ + Len(BufferBytes(inject_next))]
    /\ inject_pc' = "idle"
    /\ inject_next' = inject_next + 1
    /\ UNCHANGED <<fixed_vars, parser, ticks, mq, mq_accepted, mq_popped, running_,
                   main_pc, network_pc, parser_pc, parser_item, delivered,
                   quiet_stop>>

\* network_thread_func: while (running_.load()) { network_reads++; sleep }
\* (at most MaxReads rounds are followed while running_ stays set)
NetworkLoop ==
    /\ network_pc = "loop"
    /\ running_ => stats_.network_reads < MaxReads
    /\ IF running_
       THEN /\ stats_' = [stats_ EXCEPT !.network_reads = @ + 1]
            /\ network_pc' = "sleep"
       ELSE /\ stats_' = stats_
            /\ network_pc' = "exit"
    /\ UNCHANGED <<fixed_vars, parser, ticks, mq, mq_accepted, mq_popped, running_,
                   main_pc, inject_pc, inject_next, parser_pc, parser_item,
                   delivered, quiet_stop>>

\* sleep_for(1ms) is over
NetworkSleep ==
    /\ network_pc = "sleep"
    /\ network_pc' = "loop"
    /\ UNCHANGED <<fixed_vars, parser, ticks, mq, mq_accepted, mq_popped, running_,
                   stats_, main_pc, inject_pc, inject_next, parser_pc, parser_item,
                   delivered, quiet_stop>>

\* parser_thread_func: the left operand of the loop condition,
\* running_.load()
ParserLoopRunning ==
    /\ parser_pc = "loop"
    /\ parser_pc' = IF running_ THEN "body" ELSE "test_empty"
    /\ UNCHANGED <<fixed_vars, parser, ticks, mq, mq_accepted, mq_popped, running_,
                   stats_, main_pc, inject_pc, inject_next, network_pc, parser_item,
                   delivered, quiet_stop>>

\* the right operand, !buffer_queue_.empty(), evaluated when running_ was
\* false
ParserLoopEmpty ==
    /\ parser_pc = "test_empty"
    /\ parser_pc' = IF mq.queue_ # <<>> THEN "body" ELSE "exit"
    /\ UNCHANGED <<fixed_vars, parser, ticks, mq, mq_accepted, mq_popped, running_,
                   stats_, main_pc, inject_pc, inject_next, network_pc, parser_item,
                   delivered, quiet_stop>>

\* the rest of buffer_queue_.pop() once the wait is over; an empty result
\* breaks the loop
ParserFinishPop ==
    \E w \in Wakeable(mq.not_full_) :
        LET r == pop_after_wait(mq, w)
        IN /\ mq' = r.m
           /\ parser_item' = r.ret
           /\ mq_popped' = IF r.ret # NoItem THEN Append(mq_popped, r.ret) ELSE mq_popped
           /\ parser_pc' = IF r.ret # NoItem THEN "parse" ELSE "exit"

ParserSleepInPop ==
    /\ mq' = [mq EXCEPT !.not_empty_ = @ \cup {ParserThread}]
    /\ parser_pc' = "wait"
    /\ UNCHANGED <<parser_item, mq_popped>>

\* parser_cycles++; buffer_opt = buffer_queue_.pop()
ParserPop ==
    /\ parser_pc = "body"
    /\ stats_' = [stats_ EXCEPT !.parser_cycles = @ + 1]
    /\ IF pop_blocks(mq) THEN ParserSleepInPop ELSE ParserFinishPop
    /\ UNCHANGED <<fixed_vars, parser, ticks, mq_accepted, running_, main_pc,
                   inject_pc, inject_next, network_pc, delivered, quiet_stop>>

\* the parser thread, woken in not_empty_.wait, tests the predicate
ParserWake ==
    /\ parser_pc = "wait"
    /\ ParserThread \notin mq.not_empty_
    /\ IF pop_blocks(mq) THEN ParserSleepInPop ELSE ParserFinishPop
    /\ UNCHANGED <<fixed_vars, parser, ticks, mq_accepted, running_, stats_, main_pc,
                   inject_pc, inject_next, network_pc, delivered, quiet_stop>>

\* not_empty_.wait returns without a notification
ParserSpuriousWake ==
    /\ ParserThread \in mq.not_empty_
    /\ mq' = [mq EXCEPT !.not_empty_ = @ \ {ParserThread}]
    /\ UNCHANGED <<fixed_vars, parser, ticks, mq_accepted, mq_popped, running_,
                   stats_, main_pc, inject_pc, inject_next, network_pc, parser_pc,
                   parser_item, delivered, quiet_stop>>

RECURSIVE Reverse(_)
Reverse(q) == IF q = <<>> THEN <<>> ELSE Append(Reverse(Tail(q)), Head(q))

invoke_callbacks_backwards(log, out) == log \o Reverse(out)

\* for (const auto& tick : ticks) tick_callback_(tick): log is what the
\* callback has been handed so far
invoke_callbacks(log, out) == log \o out

\* ticks.clear(); consumed = parser_.parse(buffer); the callback and
\* messages_parsed++ for each tick; parse_errors++ if nothing was consumed
\* to the end and no tick came out
ParserParse ==
    /\ parser_pc = "parse"
    /\ LET buffer == BufferBytes(parser_item)
           r == parse(parser, <<>>, buffer)
           consumed == Len(buffer)
       IN /\ parser' = r[1]
          /\ ticks' = r[2]
          /\ delivered' = invoke_callbacks(delivered, r[2])
          /\ stats_' = [stats_ EXCEPT
                          !.messages_parsed = @ + Len(r[2]),
                          !.parse_errors =
                              IF consumed < Len(buffer) /\ r[2] = <<>> THEN @ + 1 ELSE @]
    /\ parser_pc' = "loop"
    /\ UNCHANGED <<fixed_vars, mq, mq_accepted, mq_popped, running_, main_pc,
                   inject_pc, inject_next, network_pc, parser_item, quiet_stop>>

NextPipeline ==
    \/ Start
    \/ StopCheck
    \/ StopStore
    \/ StopShutdown
    \/ StopJoinNetwork
    \/ StopJoinParser
    \/ InjectCheck
    \/ InjectPush
    \/ InjectCount
    \/ NetworkLoop
    \/ NetworkSleep
    \/ ParserLoopRunning
    \/ ParserLoopEmpty
    \/ ParserPop
    \/ ParserWake
    \/ ParserSpuriousWake
    \/ ParserParse

SpecPipeline == InitPipeline /\ [][NextPipeline]_vars

\* every thread that can take a step gets the processor in the end: stop()
\* after its test of running_, the network thread, and the parser thread at
\* its loop test and in pop; parse and the callbacks return (the parser
\* thread does not stay inside ParserParse for ever); nothing forces the
\* caller to inject, and no wait ends without a notification
FairSpecPipeline ==
    /\ SpecPipeline
    /\ WF_vars(StopStore \/ StopShutdown \/ StopJoinNetwork \/ StopJoinParser)
    /\ WF_vars(NetworkLoop \/ NetworkSleep)
    /\ WF_vars(ParserLoopRunning \/ ParserLoopEmpty \/ ParserPop \/ ParserWake)
    /\ []<>(parser_pc # "parse")

(***************************************************************************)
(* SpecPool: any MaxPoolOps calls of acquire and reset on a TickPool or a  *)
(* FlyweightTickPool of capacity 0..MaxCapacity.                           *)
(***************************************************************************)
InitPool ==
    /\ IdleRecovery
    /\ IdleBuffer
    /\ IdleQueue
    /\ IdlePipeline
    /\ msgs = <<>>
    /\ stream = <<>>
    /\ pos = 0
    /\ parser = NewParser
    /\ ticks = <<>>
    /\ pool \in {NewTickPool(n) : n \in 0..MaxCapacity}
                \cup {NewFlyweightTickPool(n) : n \in 0..MaxCapacity}
    /\ pool_seen = NothingSeen
    /\ IdleCalls
    /\ IdleLate

not_pool_vars == <<parser_vars, recovery_vars, rb_vars, mq_vars, pipe_vars, call_vars,
                   late_vars>>

\* pool.acquire()
Acquire ==
    /\ pool_seen.ops < MaxPoolOps
    /\ LET r == IF pool.kind = "TickPool" THEN tick_pool_acquire(pool)
                ELSE flyweight_acquire(pool)
       IN /\ pool' = r.pool
          /\ pool_seen' = [pool_seen EXCEPT
                             !.out = IF r.ret = NullSlot THEN @ ELSE Append(@, r.ret),
                             !.op = "acquire",
                             !.ret = r.ret,
                             !.ops = @ + 1]
    /\ UNCHANGED not_pool_vars

\* pool.reset()
PoolReset ==
    /\ pool_seen.ops < MaxPoolOps
    /\ pool' = IF pool.kind = "TickPool" THEN tick_pool_reset(pool)
               ELSE flyweight_reset(pool)
    /\ pool_seen' = [pool_seen EXCEPT
                       !.out = <<>>, !.op = "reset", !.ret = NullSlot,
                       !.ops = @ + 1, !.resets = @ + 1,
                       !.reset_full = (pool.next_index_ >= pool.pool_size)]
    /\ UNCHANGED not_pool_vars

NextPool == Acquire \/ PoolReset

SpecPool == InitPool /\ [][NextPool]_vars

(***************************************************************************)
(* SpecNumber: FastNumberParser::fast_atoi, fast_atof_fixed and the commit *)
(* of a tag 44 value, each called on one text.                             *)
(***************************************************************************)
\* the text of the decimal digits ds
Digits(ds) == [i \in 1..Len(ds) |-> CH_0 + ds[i]]

\* the bytes the short texts are made of
NumberBytes == {CH_0, CH_0 + 1, CH_9, CH_MINUS, CH_PLUS, CH_DOT}

MaxTextLen == 3

\* every text of at most MaxTextLen bytes
ShortTexts == UNION {[1..n -> NumberBytes] : n \in 0..MaxTextLen}

\* integers around the ends of the int range
LimitTexts ==
    LET max == Digits(<<2, 1, 4, 7, 4, 8, 3, 6, 4, 7>>)
        above == Digits(<<2, 1, 4, 7, 4, 8, 3, 6, 4, 8>>)
        above2 == Digits(<<2, 1, 4, 7, 4, 8, 3, 6, 4, 9>>)
        next == Digits(<<2, 1, 4, 7, 4, 8, 3, 6, 5, 0>>)
        long == Digits(<<9, 1, 2, 8, 3, 4, 7, 2, 3, 3, 2>>)
        longer == Digits(<<2, 1, 4, 7, 4, 8, 3, 6, 4, 8, 1>>)
        below == Digits(<<2, 1, 4, 7, 4, 8, 3, 6, 4, 6>>)
        short == Digits(<<2, 1, 4, 7, 4, 8, 3, 6, 4>>)
        plain == {max, above, above2, next, long, longer, below, short}
    IN plain \cup {<<CH_MINUS>> \o t : t \in plain} \cup {<<CH_PLUS>> \o t : t \in plain}

\* decimal numbers with up to six fractional digits
DecimalTexts ==
    LET plain == {Digits(<<1, 2, 3>>) \o <<CH_DOT>> \o Digits(<<4, 5, 6, 7, 8, 9>>),
                  Digits(<<0>>) \o <<CH_DOT>> \o Digits(<<0, 0, 0, 1>>),
                  Digits(<<0>>) \o <<CH_DOT>> \o Digits(<<0, 0, 0, 0, 9>>),
                  Digits(<<1>>) \o <<CH_DOT>> \o Digits(<<9, 9, 9, 9, 5>>),
                  Digits(<<7, 8, 9>>),
                  Digits(<<1, 2, 3>>) \o <<CH_DOT>>,
                  <<CH_DOT>> \o Digits(<<5, 6, 7, 8>>),
                  Digits(<<1, 5, 0>>) \o <<CH_DOT>> \o Digits(<<2, 5>>),
                  Digits(<<9, 9, 9, 9, 9>>) \o <<CH_DOT>> \o Digits(<<9, 9, 9, 9>>)}
    IN plain \cup {<<CH_MINUS>> \o t : t \in plain} \cup {<<CH_PLUS>> \o t : t \in plain}

InitNumber ==
    /\ IdleRecovery
    /\ IdleBuffer
    /\ IdleQueue
    /\ IdlePipeline
    /\ IdlePool
    /\ IdleLate
    /\ msgs = <<>>
    /\ stream = <<>>
    /\ pos = 0
    /\ parser = NewParser
    /\ ticks = <<>>
    /\ call_in \in ShortTexts \cup LimitTexts \cup DecimalTexts
    /\ call_out = NotCalled

not_call_vars == <<parser_vars, recovery_vars, rb_vars, mq_vars, pipe_vars, pool_vars,
                   late_vars>>

\* the loop of fast_atoi computes result * 10 + digit beyond INT32_MAX:
\* the guard lets result = INT32_MAX / 10 through, whatever the digit
RECURSIVE atoi_loop_overflows(_, _, _)
atoi_loop_overflows(s, i, result) ==
    IF i <= Len(s) /\ is_digit(s[i])
    THEN IF result > INT32_MAX \div 10
         THEN FALSE
         ELSE IF result = INT32_MAX \div 10 /\ digit_to_int(s[i]) > INT32_MAX % 10
              THEN TRUE
              ELSE atoi_loop_overflows(s, i + 1, result * 10 + digit_to_int(s[i]))
    ELSE FALSE

atoi_overflows(s) ==
    IF Len(s) = 0 THEN FALSE
    ELSE LET start == IF s[1] = CH_MINUS \/ s[1] = CH_PLUS THEN 2 ELSE 1
         IN atoi_loop_overflows(s, start, 0)

\* fast_atoi(call_in): signed overflow is undefined; the build either wraps
\* (two's complement) or traps (-ftrapv, a sanitizer)
ScanI32 ==
    /\ call_out' \in
         {[op |-> "fast_atoi", trapped |-> FALSE, val |-> fast_atoi(call_in)]}
         \cup (IF atoi_overflows(call_in)
               THEN {[op |-> "fast_atoi", trapped |-> TRUE, val |-> 0]}
               ELSE {})
    /\ UNCHANGED <<call_in, not_call_vars>>

\* fast_atof_fixed(call_in), scale 10000; the texts whose int64 result is
\* within the checker's integers
ScanFixed ==
    /\ call_in \in ShortTexts \cup DecimalTexts
    /\ call_out' = [op |-> "fast_atof_fixed", trapped |-> FALSE,
                    val |-> fast_atof_fixed(call_in, PRICE_SCALE)]
    /\ UNCHANGED <<call_in, not_call_vars>>

\* process_char, case 44, on a value scratch that holds call_in
CommitPrice ==
    /\ call_in \in ShortTexts \cup DecimalTexts
    /\ call_out' = [op |-> "commit_44", trapped |-> FALSE,
                    val |-> commit_field(NewTickBuilder, 44, call_in).price]
    /\ UNCHANGED <<call_in, not_call_vars>>

NextNumber == ScanI32 \/ ScanFixed \/ CommitPrice

SpecNumber == InitNumber /\ [][NextNumber]_vars

(***************************************************************************)
(* RepeatingGroupParser.  A field is a record of its tag and its value     *)
(* bytes; a tick is a record of symbol, price, qty and side.               *)
(***************************************************************************)
MAX_FIELDS == 128
MAX_INDICES == 32
SIDE_T == 84

\* the first index in from..(to - 1) that holds the byte c, or to
RECURSIVE find_byte(_, _, _, _)
find_byte(m, from, to, c) ==
    IF from >= to THEN to
    ELSE IF m[from] = c THEN from
    ELSE find_byte(m, from + 1, to, c)

\* the loop of extract_all_fields from offset ptr on
RECURSIVE extract_loop(_, _, _)
extract_loop(m, ptr, fields) ==
    IF ptr > Len(m) \/ Len(fields) >= MAX_FIELDS THEN fields
    ELSE LET delim_ptr == find_byte(m, ptr, Len(m) + 1, CH_PIPE)
             eq_ptr == find_byte(m, ptr, delim_ptr, CH_EQ)
             tag == fast_atoi(SubSeq(m, ptr, eq_ptr - 1))
             taken == delim_ptr > ptr /\ eq_ptr < delim_ptr /\ eq_ptr > ptr /\ tag > 0
         IN extract_loop(m, delim_ptr + 1,
                         IF taken
                         THEN Append(fields, [tag |-> tag,
                                              value |-> SubSeq(m, eq_ptr + 1, delim_ptr - 1)])
                         ELSE fields)

extract_all_fields(m) == extract_loop(m, 1, <<>>)

\* the indices of the fields with the given tag, at most MAX_INDICES
RECURSIVE find_all_loop(_, _, _, _)
find_all_loop(fields, tag, i, indices) ==
    IF i > Len(fields) \/ Len(indices) >= MAX_INDICES THEN indices
    ELSE find_all_loop(fields, tag, i + 1,
                       IF fields[i].tag = tag THEN Append(indices, i) ELSE indices)

find_all_fields(fields, tag) == find_all_loop(fields, tag, 1, <<>>)

\* the index of the first field with the given tag, 0 for nullptr
find_first_field(fields, tag) ==
    IF \E i \in 1..Len(fields) : fields[i].tag = tag
    THEN CHOOSE i \in 1..Len(fields) :
            fields[i].tag = tag /\ \A j \in 1..(i - 1) : fields[j].tag # tag
    ELSE 0

\* Tick::is_valid of a tick that carries its symbol
group_tick_is_valid(t) ==
    /\ Len(t.symbol) > 0
    /\ t.price > 0
    /\ t.qty > 0
    /\ (t.side = SIDE_B \/ t.side = SIDE_S)

entry_type_to_side(entry_type) ==
    IF entry_type = 0 THEN SIDE_B ELSE IF entry_type = 1 THEN SIDE_S ELSE SIDE_T

\* the tick of entry i of the parallel index lists
group_entry(fields, symbol, types, prices, sizes, i) ==
    [symbol |-> symbol,
     side |-> entry_type_to_side(fast_atoi(fields[types[i]].value)),
     price |-> fast_atof_fixed(fields[prices[i]].value, PRICE_SCALE),
     qty |-> fast_atoi(fields[sizes[i]].value)]

\* a loop that ends at the first entry that is not valid
RECURSIVE group_loop_stop_at_invalid(_, _, _, _, _, _, _, _)
group_loop_stop_at_invalid(fields, symbol, types, prices, sizes, i, entry_count, out) ==
    IF i > entry_count THEN out
    ELSE LET tick == group_entry(fields, symbol, types, prices, sizes, i)
         IN IF group_tick_is_valid(tick)
            THEN group_loop_stop_at_invalid(fields, symbol, types, prices, sizes, i + 1,
                                            entry_count, Append(out, tick))
            ELSE out

\* the loop over the entries: for (i = 0; i < entry_count; ++i)
RECURSIVE group_loop(_, _, _, _, _, _, _, _)
group_loop(fields, symbol, types, prices, sizes, i, entry_count, out) ==
    IF i > entry_count THEN out
    ELSE LET tick == group_entry(fields, symbol, types, prices, sizes, i)
         IN group_loop(fields, symbol, types, prices, sizes, i + 1, entry_count,
                       IF group_tick_is_valid(tick) THEN Append(out, tick) ELSE out)

\* the branch for a message without repeating groups
single_tick(fields, symbol) ==
    LET f44 == find_first_field(fields, 44)
        f270 == find_first_field(fields, 270)
        f38 == find_first_field(fields, 38)
        f271 == find_first_field(fields, 271)
        f54 == find_first_field(fields, 54)
        f269 == find_first_field(fields, 269)
        tick == [symbol |-> symbol,
                 price |-> IF f44 # 0 THEN fast_atof_fixed(fields[f44].value, PRICE_SCALE)
                           ELSE IF f270 # 0
                                THEN fast_atof_fixed(fields[f270].value, PRICE_SCALE)
                                ELSE 0,
                 qty |-> IF f38 # 0 THEN fast_atoi(fields[f38].value)
                         ELSE IF f271 # 0 THEN fast_atoi(fields[f271].value)
                         ELSE 0,
                 side |-> IF f54 # 0 THEN fix_side_to_char(fast_atoi(fields[f54].value))
                          ELSE IF f269 # 0
                               THEN entry_type_to_side(fast_atoi(fields[f269].value))
                               ELSE SIDE_NONE]
    IN IF group_tick_is_valid(tick) THEN <<tick>> ELSE <<>>

Min3(a, b, c) == Min(Min(a, b), c)

\* RepeatingGroupParser::parse_repeating_groups(message): the ticks returned
parse_repeating_groups(m) ==
    LET fields == extract_all_fields(m)
        f55 == find_first_field(fields, 55)
        symbol == IF f55 # 0 THEN fields[f55].value ELSE <<>>
        f268 == find_first_field(fields, 268)
        counted == IF f268 # 0 THEN fast_atoi(fields[f268].value) ELSE 0
        num_entries == IF counted = 0 THEN Len(find_all_fields(fields, 269)) ELSE counted
    IN IF num_entries = 0 THEN single_tick(fields, symbol)
       ELSE LET types == find_all_fields(fields, 269)
                prices == find_all_fields(fields, 270)
                sizes == find_all_fields(fields, 271)
                entry_count == Min3(Len(types), Len(prices), Len(sizes))
            IN group_loop(fields, symbol, types, prices, sizes, 1, entry_count, <<>>)

(***************************************************************************)
(* SpecGroups: parse_repeating_groups called on one snapshot message of up *)
(* to MaxEntries entries, its fields separated by one of the delimiters.   *)
(***************************************************************************)
MaxEntries == 3

\* a field as it is written: the digits of the tag and the value bytes
Written(tag, name, value) == [tag |-> tag, name |-> Digits(name), value |-> value]

T269(v) == Written(269, <<2, 6, 9>>, Digits(<<v>>))
T270(int, frac) == Written(270, <<2, 7, 0>>, Digits(int) \o <<CH_DOT>> \o Digits(frac))
T271(v) == Written(271, <<2, 7, 1>>, Digits(v))

\* 8=FIX.4.4 and 35=W
Preamble ==
    <<Written(8, <<8>>, <<70, 73, 88, 46, 52, 46, 52>>), Written(35, <<3, 5>>, <<87>>)>>

\* 55=MSFT
Symbol55 == Written(55, <<5, 5>>, <<77, 83, 70, 84>>)

\* the entries of the snapshot of test_market_data_snapshot
ScenarioEntries ==
    <<<<T269(0), T270(<<1, 0, 0>>, <<5, 0>>), T271(<<1, 0, 0, 0>>)>>,
      <<T269(0), T270(<<1, 0, 0>>, <<2, 5>>), T271(<<5, 0, 0>>)>>,
      <<T269(1), T270(<<1, 0, 0>>, <<7, 5>>), T271(<<7, 5, 0>>)>>>>

\* entries: the three of the scenario, a trade, a zero size, a zero price,
\* and entries that lack their size or their type
EntryKinds ==
    {ScenarioEntries[1], ScenarioEntries[2], ScenarioEntries[3],
     <<T269(2), T270(<<1>>, <<5>>), T271(<<7>>)>>,
     <<T269(0), T270(<<2>>, <<2, 5>>), T271(<<0>>)>>,
     <<T269(1), T270(<<0>>, <<0>>), T271(<<3, 0>>)>>,
     <<T269(1), T270(<<3>>, <<0>>)>>,
     <<T270(<<0>>, <<5>>), T271(<<9>>)>>}

RECURSIVE Flatten(_)
Flatten(entries) ==
    IF Len(entries) = 0 THEN <<>> ELSE Head(entries) \o Flatten(Tail(entries))

\* the snapshots: with the count of tag 268 or without it, with or
\* without the shared symbol
Snapshots ==
    UNION {{Preamble \o head \o Flatten(es) :
               head \in {<<Symbol55, Written(268, <<2, 6, 8>>, Digits(<<Len(es)>>))>>,
                         <<Symbol55>>,
                         <<Written(268, <<2, 6, 8>>, Digits(<<Len(es)>>))>>}} :
           es \in UNION {[1..n -> EntryKinds] : n \in 0..MaxEntries}}

\* the bytes of a message: every field followed by the delimiter
RECURSIVE Render(_, _)
Render(fs, d) ==
    IF Len(fs) = 0 THEN <<>>
    ELSE Head(fs).name \o <<CH_EQ>> \o Head(fs).value \o <<d>> \o Render(Tail(fs), d)

NoTicksYet == [op |-> "none", trapped |-> FALSE, val |-> <<>>]

InitGroups ==
    /\ IdleRecovery
    /\ IdleBuffer
    /\ IdleQueue
    /\ IdlePipeline
    /\ IdlePool
    /\ IdleLate
    /\ msgs = <<>>
    /\ stream = <<>>
    /\ pos = 0
    /\ parser = NewParser
    /\ ticks = <<>>
    /\ call_in \in {[fields |-> fs, delimiter |-> d] :
                       fs \in Snapshots, d \in {CH_PIPE, CH_SOH, CH_CR, CH_LF}}
    /\ call_out = NoTicksYet

\* ticks = RepeatingGroupParser::parse_repeating_groups(message)
ParseGroups ==
    /\ call_out' = [op |-> "parse_repeating_groups", trapped |-> FALSE,
                    val |-> parse_repeating_groups(Render(call_in.fields,
                                                          call_in.delimiter))]
    /\ UNCHANGED <<call_in, not_call_vars>>

NextGroups == ParseGroups

SpecGroups == InitGroups /\ [][NextGroups]_vars

(***************************************************************************)
(* Properties of the parser under Spec.                                    *)
(***************************************************************************)
\* <<parser, ticks>> of a fresh parser after one parse call on stream[1..i]
StateAt(i) == parse(NewParser, <<>>, SubSeq(stream, 1, i))

BuilderEmpty(b) ==
    /\ ~b.has_symbol /\ ~b.has_price /\ ~b.has_qty /\ ~b.has_side
    /\ b.symbol_length = 0 /\ b.price = 0 /\ b.qty = 0 /\ b.side = SIDE_NONE

AllValid == \A k \in 1..Len(msgs) : Messages[msgs[k]].kind = "valid"

\* C1: however the bytes fed so far were cut into parse calls, the parser
\* and the ticks (symbol view, price, qty, side) are those of a fresh parser
\* after a single parse call on the same bytes.
FragmentationEquivalence ==
    LET whole == StateAt(pos)
    IN /\ parser = whole[1]
       /\ ticks = whole[2]
       /\ \A i \in 1..Len(ticks) :
            tick_symbol(parser, ticks[i]) = tick_symbol(whole[1], whole[2][i])

\* C1 witness: the stream was cut in the middle of a value of its second
\* message, after the first message's tick came out
CutInsideValue ==
    /\ 0 < pos /\ pos < Len(stream)
    /\ parser.state = "READ_VALUE" /\ Len(parser.value_buffer) >= 1
    /\ Len(ticks) >= 1

EmittedSymbolsStable ==
    [][\A i \in 1..Len(ticks) :
         tick_symbol(parser', ticks'[i]) = tick_symbol(parser, ticks[i])]_vars

\* C4: one parse call on a buffer of n complete valid messages emits n
\* ticks, the i-th with the price, qty and side of the i-th message.
BatchEquivalence ==
    [][(pos = 0 /\ pos' = Len(stream) /\ AllValid) =>
         /\ Len(ticks') = Len(msgs)
         /\ \A i \in 1..Len(msgs) :
              /\ ticks'[i].price = Messages[msgs[i]].price
              /\ ticks'[i].qty = Messages[msgs[i]].qty
              /\ ticks'[i].side = Messages[msgs[i]].side]_vars

\* C4 witness: a buffer of MaxMsgs valid messages has been parsed
BatchParsed ==
    /\ pos = Len(stream) /\ AllValid
    /\ Len(msgs) = MaxMsgs /\ Len(ticks) = MaxMsgs

IncompleteMessageDropped ==
    \A k \in 1..Len(msgs) :
        (pos = MsgEnd(msgs, k) /\ Messages[msgs[k]].kind = "missing") =>
            LET before == StateAt(MsgStart(msgs, k))
            IN BuilderEmpty(before[1].tick_builder) =>
                 /\ Len(ticks) = Len(before[2])
                 /\ BuilderEmpty(parser.tick_builder)
                 /\ parser.state = "WAIT_TAG"

\* C6 witness: an incomplete message has been fed after another message, to
\* an empty builder
IncompleteMessageFed ==
    \E k \in 2..Len(msgs) :
        /\ pos = MsgEnd(msgs, k)
        /\ Messages[msgs[k]].kind = "missing"
        /\ BuilderEmpty(StateAt(MsgStart(msgs, k))[1].tick_builder)
        /\ Len(ticks) >= 1

\* C7: a value longer than the 255-byte scratch, or a tag longer than 15
\* digits, never makes a scratch hold more than its capacity; at the
\* delimiter that ends the long field the scratch held the first 255 (15)
\* bytes, the field is committed from them and the parser is in WAIT_TAG;
\* and the complete message that follows yields the tick a fresh parser
\* yields for it.
TruncationTolerance ==
    /\ Len(parser.value_buffer) <= VALUE_BUFFER_SIZE - 1
    /\ Len(parser.tag_buffer) <= TAG_BUFFER_SIZE - 1
    /\ \A k \in 1..Len(msgs) :
         LET m == Messages[msgs[k]]
         IN m.kind = "overflow" =>
              /\ pos = MsgStart(msgs, k) + m.resync =>
                   LET before == StateAt(pos - 1)[1]
                       scratch == IF m.part = "value" THEN before.value_buffer
                                  ELSE before.tag_buffer
                       cap == IF m.part = "value" THEN VALUE_BUFFER_SIZE - 1
                              ELSE TAG_BUFFER_SIZE - 1
                   IN /\ scratch = SubSeq(m.bytes, m.field_at, m.field_at + cap - 1)
                      /\ before.state = "READ_VALUE"
                      /\ parser.tick_builder =
                           commit_field(before.tick_builder, before.current_tag,
                                        before.value_buffer)
                      /\ parser.tick_builder.has_qty => parser.tick_builder.qty = m.qty
                      /\ parser.state = "WAIT_TAG"
                      /\ parser.current_tag = 0
                      /\ parser.value_buffer = <<>>
              /\ \A j \in (k + 1)..Len(msgs) :
                   pos = MsgEnd(msgs, j) =>
                     LET fresh == parse(NewParser, <<>>, Messages[msgs[j]].bytes)
                         n == Len(ticks)
                     IN /\ Len(fresh[2]) = 1
                        /\ n = Len(StateAt(MsgStart(msgs, j))[2]) + 1
                        /\ ticks[n] = fresh[2][1]
                        /\ tick_symbol(parser, ticks[n]) = tick_symbol(fresh[1], fresh[2][1])
                        /\ parser.state = "WAIT_TAG"

\* C7 witness: the message after an over-long quantity has been parsed, and
\* the quantity came out saturated from the truncated digits
OverflowThenMessageParsed ==
    /\ Len(msgs) = 2 /\ msgs[1] = "TQ"
    /\ pos = Len(stream)
    /\ Len(ticks) = 2
    /\ ticks[1].qty = INT32_MAX

\* C8 as claimed: with recovery disabled, garbage followed by one valid
\* message leaves no tick and the parser in WAIT_TAG.
DisabledRecoveryEmitsNothing ==
    (pc = "done" /\ ~garbage_recovery_enabled) =>
        /\ Len(ticks) = 0
        /\ parser.state = "WAIT_TAG"

PositionsInBounds ==
    /\ 0 <= rb.read_pos_
    /\ rb.read_pos_ <= rb.write_pos_
    /\ rb.write_pos_ <= BUFFER_SIZE
    /\ Len(rb.buffer_) <= BUFFER_SIZE

\* C10 witness: the buffer was filled to capacity by writes and then drained
\* by consume, which compacted it (the last cell of the array was written)
FilledThenDrained ==
    /\ rb_ops >= 2
    /\ rb.write_pos_ = 0
    /\ rb.read_pos_ = 0
    /\ Len(rb.buffer_) = BUFFER_SIZE

\* what is left of the bytes the writes accepted after the consumes
Unconsumed == SubSeq(rb_written, rb_consumed + 1, Len(rb_written))

\* C11: from a reset buffer, after writes and consumes of which no write was
\* cut short, the readable region [read_pos, write_pos) is the concatenation
\* of the written bytes without its first (total consumed) bytes.
ByteFifo ==
    ~rb_truncated =>
        /\ readable_bytes(rb) = Len(rb_written) - rb_consumed
        /\ readable(rb) = Unconsumed

\* C11 witness: write(a); write(b); consume(|a|) with |a| past half of the
\* capacity has left b readable
SecondWriteReadable ==
    /\ rb_ops = 3
    /\ ~rb_truncated
    /\ rb_consumed = BUFFER_SIZE \div 2 + 1
    /\ Len(rb_written) = rb_consumed + 1
    /\ readable(rb) = Payload(1, 1)

\* C12: a consume call that ends with read_pos > capacity / 2 leaves
\* read_pos = 0 and write_pos = the remaining length, and the readable bytes
\* are the unconsumed bytes of before; a consume call that ends with
\* read_pos <= capacity / 2 moves no byte and leaves write_pos as it was.
CompactionPreservesReadable ==
    [][\A len \in ConsumeLens :
         Consume(len) =>
           LET advanced == rb.read_pos_ + Min(len, rb.write_pos_ - rb.read_pos_)
               remaining == SubSeq(rb.buffer_, advanced + 1, rb.write_pos_)
           IN IF advanced > BUFFER_SIZE \div 2
              THEN /\ rb'.read_pos_ = 0
                   /\ rb'.write_pos_ = Len(remaining)
                   /\ readable(rb') = remaining
              ELSE /\ rb'.read_pos_ = advanced
                   /\ rb'.write_pos_ = rb.write_pos_
                   /\ rb'.buffer_ = rb.buffer_]_vars

\* C12 witness: a consume has compacted a buffer that still held unconsumed
\* bytes (a full buffer, one byte more than half of it consumed at once)
CompactedWithRemainder ==
    /\ rb.read_pos_ = 0
    /\ rb.write_pos_ = BUFFER_SIZE \div 2 - 1
    /\ rb_consumed = BUFFER_SIZE \div 2 + 1
    /\ Len(rb_written) = BUFFER_SIZE

\* C13 as claimed: in a sequence of write(x); consume(|x|) pairs with every
\* |x| <= capacity, no write is cut short.
PairsNeverTruncated == ~rb_truncated

(***************************************************************************)
(* Properties of MessageQueue under SpecMQ.                                *)
(***************************************************************************)

\* C14: as long as clear() has not discarded anything, the items accepted by
\* push and try_push are, in order, the items the pops returned followed by
\* the items still queued (nothing lost, nothing duplicated, first in first
\* out, also after shutdown); and a pop that returned an empty result did so
\* on a queue that is shut down and empty, every accepted item having been
\* popped.
FifoNoLoss ==
    ~mq_cleared =>
        /\ mq_accepted = mq_popped \o mq.queue_
        /\ \A t \in Consumers :
             (mq_ret[t].op = "pop" /\ mq_ret[t].val = NoItem) =>
                 /\ mq.shutdown_
                 /\ mq.queue_ = <<>>
                 /\ mq_popped = mq_accepted

\* two items were accepted and popped, then a pop on the shut down, empty
\* queue returned the empty result
DrainedAfterShutdown ==
    /\ ~mq_cleared
    /\ Len(mq_popped) >= 2
    /\ mq_popped = mq_accepted
    /\ mq.shutdown_
    /\ \E t \in Consumers : mq_ret[t] = [op |-> "pop", val |-> NoItem]

\* C15: a queue built with max_size > 0 never holds more than max_size
\* items, and a try_push that found it full returned false leaving it full
\* (every step that returns false from try_push leaves queue_ as it was).
BoundRespected ==
    /\ [](mq.max_size_ > 0 => Len(mq.queue_) <= mq.max_size_)
    /\ [][\A t \in Producers :
            (TryPush(t) /\ mq.max_size_ > 0 /\ Len(mq.queue_) >= mq.max_size_) =>
                /\ mq_ret'[t] = [op |-> "try_push", val |-> FALSE]
                /\ mq' = mq]_vars
    /\ [][\A t \in Producers :
            (Push(t) /\ mq.max_size_ > 0 /\ Len(mq.queue_) >= mq.max_size_) =>
                /\ mq'.queue_ = mq.queue_
                /\ (~mq.shutdown_ => (mq_pc'[t].op = "push" /\ t \in mq'.not_full_))]_vars

\* a bounded queue is full, a try_push has just been refused and a push is
\* asleep waiting for room
FullQueueRefused ==
    /\ mq.max_size_ > 0
    /\ Len(mq.queue_) = mq.max_size_
    /\ ~mq.shutdown_
    /\ \E t \in Producers : mq_ret[t] = [op |-> "try_push", val |-> FALSE]
    /\ \E t \in Producers : mq_pc[t].op = "push" /\ t \in mq.not_full_

\* C16: once shutdown() has been called, every thread inside push or pop
\* returns in the end; shutdown_ stays set and nothing is enqueued any more;
\* every push that returns after it returns false; a pop that was blocked on
\* the empty queue returns the empty result; and a further shutdown() leaves
\* the queue as it is.
ShutdownWakesAll ==
    /\ \A t \in QueueThreads :
         (mq.shutdown_ /\ mq_pc[t] # IdleCall) ~> (mq_pc[t] = IdleCall)
    /\ [][mq.shutdown_ =>
            /\ mq'.shutdown_
            /\ mq_accepted' = mq_accepted
            /\ Len(mq'.queue_) <= Len(mq.queue_)]_vars
    /\ [][\A t \in Producers :
            (mq.shutdown_ /\ (Push(t) \/ PushWake(t))) =>
                /\ mq_pc'[t] = IdleCall
                /\ mq_ret'[t] = [op |-> "push", val |-> FALSE]]_vars
    /\ [][\A t \in Consumers :
            (mq.shutdown_ /\ mq.queue_ = <<>> /\ PopWake(t)) =>
                /\ mq_pc'[t] = IdleCall
                /\ mq_ret'[t] = [op |-> "pop", val |-> NoItem]]_vars
    /\ [][(mq.shutdown_ /\ Shutdown) => mq' = mq]_vars

\* shutdown() found a push and a pop asleep, and both have returned: the
\* push false, the pop the empty result
WaitersReleased ==
    /\ mq.shutdown_
    /\ \E t \in Producers : mq_ret[t] = [op |-> "push", val |-> FALSE]
    /\ \E t \in Consumers : mq_ret[t] = [op |-> "pop", val |-> NoItem]
    /\ \A t \in QueueThreads : mq_pc[t] = IdleCall

(***************************************************************************)
(* Properties of ThreadedFeedHandler under SpecPipeline.                   *)
(***************************************************************************)

\* C17: when stop() has returned, the queue is empty and the parser thread
\* has popped and parsed every buffer that inject_data enqueued.
GracefulDrain ==
    main_pc = "stopped" =>
        /\ mq.queue_ = <<>>
        /\ mq_popped = mq_accepted

\* C18: once stop() has cleared running_ on a running pipeline, the network
\* thread and the parser thread terminate and stop() returns, wherever the
\* parser thread was (asleep in pop, parsing, at its loop test) and however
\* full the queue is.
StopTerminates ==
    (main_pc = "stop_store") ~>
        (main_pc = "stopped" /\ network_pc = "exit" /\ parser_pc = "exit")

\* stop() has returned and both threads have ended, the parser thread's only
\* pop having returned the empty result of the shut down queue (nothing was
\* injected)
StoppedFromBlockedPop ==
    /\ main_pc = "stopped"
    /\ network_pc = "exit"
    /\ parser_pc = "exit"
    /\ stats_.parser_cycles = 1
    /\ mq_accepted = <<>>
    /\ inject_next = 1

\* the ticks of each message of the scripts, parsed on its own
ScriptIds == {"V1", "V2", "V3", "V4"}
TickOfMessage == [id \in ScriptIds |-> parse(NewParser, <<>>, Messages[id].bytes)[2]]

RECURSIVE TicksOfIds(_)
TicksOfIds(ids) ==
    IF ids = <<>> THEN <<>> ELSE TickOfMessage[Head(ids)] \o TicksOfIds(Tail(ids))

\* the ticks of the messages of the buffers items, in the order of the
\* buffers and, within a buffer, of its messages
RECURSIVE TicksOfBuffers(_)
TicksOfBuffers(items) ==
    IF items = <<>> THEN <<>>
    ELSE TicksOfIds(script[Head(items)]) \o TicksOfBuffers(Tail(items))

\* the buffers the parser thread has parsed: those it popped, but for the one
\* it is about to parse
ParsedBuffers ==
    IF parser_pc = "parse" THEN SubSeq(mq_popped, 1, Len(mq_popped) - 1)
    ELSE mq_popped

\* C19: the buffers the parser thread popped are, in order, the first of the
\* buffers the queue accepted, the rest being queued in that order; and the
\* callback has been handed exactly the ticks of the messages of the parsed
\* buffers, in the order of the buffers and of the messages within each.
PipelineOrdering ==
    /\ mq_accepted = mq_popped \o mq.queue_
    /\ delivered = TicksOfBuffers(ParsedBuffers)

\* both buffers of the script with a two-message buffer were accepted and
\* parsed: three different ticks were delivered
ThreeTicksDelivered ==
    /\ Len(script) = 2
    /\ mq_popped = <<1, 2>>
    /\ Len(delivered) = 3
    /\ delivered[1] # delivered[2]
    /\ delivered[2] # delivered[3]

\* the caller injected N copies of one valid message, one per call, into the
\* running pipeline with a queue smaller than N, every call returned, then
\* stop() was called and has returned
RECURSIVE ScriptBytes(_)
ScriptBytes(i) == IF i = 0 THEN 0 ELSE ScriptBytes(i - 1) + Len(BufferBytes(i))

CopiesInjectedThenStopped ==
    /\ script = [i \in 1..MaxInject |-> <<"V4">>]
    /\ mq.max_size_ < Len(script)
    /\ inject_next = Len(script) + 1
    /\ inject_pc = "idle"
    /\ stats_.bytes_received = ScriptBytes(Len(script))
    /\ quiet_stop
    /\ main_pc = "stopped"

\* C20, as claimed: then messages_parsed = N.
AllCopiesParsed ==
    CopiesInjectedThenStopped => stats_.messages_parsed = Len(script)

\* C20, as the code has it: then every copy was either parsed or counted as
\* a queue overflow, messages_parsed + queue_overflows = N, and none is left
\* in the queue; messages_parsed = N exactly when no try_push found the
\* queue full.
CopiesParsedOrCounted ==
    CopiesInjectedThenStopped =>
        /\ stats_.messages_parsed + stats_.queue_overflows = Len(script)
        /\ stats_.messages_parsed = Len(mq_accepted)
        /\ mq.queue_ = <<>>

\* the run ended with copies parsed and copies dropped
SomeParsedSomeDropped ==
    /\ CopiesInjectedThenStopped
    /\ stats_.messages_parsed >= 1
    /\ stats_.queue_overflows >= 1

\* C21: the buffers that entered the queue (popped or still queued) plus
\* queue_overflows are as many as the inject_data calls that found running_
\* set and have come back from try_push; each such call either appends its
\* buffer to the queue and leaves queue_overflows alone, or leaves the queue
\* as it is and adds exactly one to queue_overflows; and a call that finds
\* running_ clear changes neither the queue nor a statistic.
DropWithCounter ==
    /\ [](Len(mq_popped) + Len(mq.queue_) + stats_.queue_overflows
            = inject_passed - (IF inject_pc = "push" THEN 1 ELSE 0))
    /\ [][InjectPush =>
            \/ /\ mq'.queue_ = Append(mq.queue_, inject_next)
               /\ stats_' = stats_
            \/ /\ mq' = mq
               /\ stats_' = [stats_ EXCEPT !.queue_overflows = @ + 1]]_vars
    /\ [][(InjectCheck /\ ~running_) =>
            (mq' = mq /\ stats_' = stats_ /\ inject_passed' = inject_passed)]_vars

\* one call enqueued its buffer, one found the queue full and one found the
\* pipeline stopped
EnqueuedDroppedIgnored ==
    /\ Len(mq_accepted) >= 1
    /\ stats_.queue_overflows >= 1
    /\ inject_pc = "idle"
    /\ inject_passed < inject_next - 1
    /\ ~running_

(***************************************************************************)
(* Properties of TickPool and FlyweightTickPool under SpecPool.            *)
(***************************************************************************)

\* C22: next_index_ never exceeds the capacity; the slots handed out since
\* the last reset are pairwise distinct; an acquire on a pool that is not
\* full returns the slot at next_index_ and advances it by one; an acquire
\* on a full pool returns null and leaves next_index_ as it is.
PoolBounded ==
    /\ [](/\ pool.next_index_ <= pool.pool_size
          /\ \A i, j \in 1..Len(pool_seen.out) :
               i # j => pool_seen.out[i] # pool_seen.out[j])
    /\ [][Acquire =>
            IF pool.next_index_ < pool.pool_size
            THEN /\ pool_seen'.ret = pool.next_index_
                 /\ pool'.next_index_ = pool.next_index_ + 1
            ELSE /\ pool_seen'.ret = NullSlot
                 /\ pool' = pool]_vars

\* a pool of capacity 2 or more has handed out all its slots and the next
\* acquire returned null
PoolExhausted ==
    /\ pool.pool_size >= 2
    /\ pool.next_index_ = pool.pool_size
    /\ Len(pool_seen.out) = pool.pool_size
    /\ pool_seen.op = "acquire"
    /\ pool_seen.ret = NullSlot

\* C23: reset leaves a pool equal to a freshly constructed one of the same
\* capacity (size() = 0, capacity unchanged), whatever state it was in; and
\* the slots handed out since the last reset, or since construction, are
\* slot 0, 1, 2, ... in that order, the acquire after the last one failing.
ResetRewinds ==
    /\ [][PoolReset =>
            /\ pool'.next_index_ = 0
            /\ pool'.pool_size = pool.pool_size
            /\ pool' = IF pool.kind = "TickPool" THEN NewTickPool(pool.pool_size)
                       ELSE NewFlyweightTickPool(pool.pool_size)]_vars
    /\ [](/\ pool_seen.out = [i \in 1..pool.next_index_ |-> i - 1]
          /\ (pool_seen.op = "acquire" /\ pool_seen.ret = NullSlot)
                => Len(pool_seen.out) = pool.pool_size)

\* an exhausted pool was reset and then handed out every slot again before
\* an acquire failed
ExhaustedTwice ==
    /\ pool.pool_size >= 2
    /\ pool_seen.reset_full
    /\ Len(pool_seen.out) = pool.pool_size
    /\ pool_seen.op = "acquire"
    /\ pool_seen.ret = NullSlot

(***************************************************************************)
(* Properties of the number functions under SpecNumber.                    *)
(***************************************************************************)
\* the text is an optional sign followed by one or more decimal digits
SignedDigits(s) ==
    LET start == IF Len(s) > 0 /\ (s[1] = CH_MINUS \/ s[1] = CH_PLUS) THEN 2 ELSE 1
    IN /\ start <= Len(s)
       /\ \A i \in start..Len(s) : is_digit(s[i])

\* the magnitude of the digits s[i..] after acc, -1 standing for every
\* magnitude above INT32_MAX
RECURSIVE Magnitude(_, _, _)
Magnitude(s, i, acc) ==
    IF i > Len(s) THEN acc
    ELSE LET d == digit_to_int(s[i])
         IN IF acc > (INT32_MAX - d) \div 10 THEN -1
            ELSE Magnitude(s, i + 1, acc * 10 + d)

\* the value of a signed decimal text, clamped to [INT32_MIN, INT32_MAX]
ClampedValue(s) ==
    LET negative == s[1] = CH_MINUS
        start == IF s[1] = CH_MINUS \/ s[1] = CH_PLUS THEN 2 ELSE 1
        m == Magnitude(s, start, 0)
    IN IF m < 0 THEN (IF negative THEN INT32_MIN ELSE INT32_MAX)
       ELSE (IF negative THEN -m ELSE m)

\* C24 (as stated): fast_atoi of an optional sign followed by decimal digits
\* is the mathematical value clamped to [INT32_MIN, INT32_MAX]; the
\* accumulator never overflows.
AtoiSaturates ==
    (call_out.op = "fast_atoi" /\ SignedDigits(call_in))
        => (~call_out.trapped /\ call_out.val = ClampedValue(call_in))

\* the text is an optional sign, decimal digits, and optionally a point
\* followed by decimal digits
IsDecimal(s) ==
    LET start == IF Len(s) > 0 /\ (s[1] = CH_MINUS \/ s[1] = CH_PLUS) THEN 2 ELSE 1
    IN \E k \in start..(Len(s) + 1) :
          /\ \A i \in start..(k - 1) : is_digit(s[i])
          /\ k <= Len(s) => s[k] = CH_DOT
          /\ \A i \in (k + 1)..Len(s) : is_digit(s[i])

RECURSIVE Pow10(_)
Pow10(n) == IF n = 0 THEN 1 ELSE 10 * Pow10(n - 1)

\* the number written by the digits s[from..to]
RECURSIVE DigitsValue(_, _, _)
DigitsValue(s, from, to) ==
    IF from > to THEN 0
    ELSE DigitsValue(s, from, to - 1) * 10 + digit_to_int(s[to])

\* sign * (integer part * 10^4 + the first min(d, 4) fractional digits
\* scaled to 4 places), d the number of fractional digits
TruncatedFixed(s) ==
    LET negative == Len(s) > 0 /\ s[1] = CH_MINUS
        start == IF Len(s) > 0 /\ (s[1] = CH_MINUS \/ s[1] = CH_PLUS) THEN 2 ELSE 1
        point == IF \E k \in start..Len(s) : s[k] = CH_DOT
                 THEN CHOOSE k \in start..Len(s) : s[k] = CH_DOT
                 ELSE Len(s) + 1
        d == IF point > Len(s) THEN 0 ELSE Len(s) - point
        kept == IF d < 4 THEN d ELSE 4
        magnitude == DigitsValue(s, start, point - 1) * Pow10(4)
                     + DigitsValue(s, point + 1, point + kept) * Pow10(4 - kept)
    IN IF negative THEN -magnitude ELSE magnitude

\* C25: fast_atof_fixed with scale 10^4 returns sign * (integer part * 10^4
\* + the first min(d, 4) fractional digits scaled to 4 places): digits
\* beyond the fourth are discarded, never rounded ("123.456789" gives
\* 1234567, "0.0001" gives 1); an empty or sign-only text gives 0.
FixedTruncates ==
    call_out.op = "fast_atof_fixed" =>
        /\ IsDecimal(call_in) => call_out.val = TruncatedFixed(call_in)
        /\ call_in = Digits(<<1, 2, 3>>) \o <<CH_DOT>> \o Digits(<<4, 5, 6, 7, 8, 9>>)
              => call_out.val = 1234567
        /\ call_in = Digits(<<0>>) \o <<CH_DOT>> \o Digits(<<0, 0, 0, 1>>)
              => call_out.val = 1
        /\ call_in \in {<<>>, <<CH_MINUS>>, <<CH_PLUS>>} => call_out.val = 0

\* fast_atof_fixed("-123.456789") returned -1234567
NegativeFractionCut ==
    /\ call_out.op = "fast_atof_fixed"
    /\ call_in = <<CH_MINUS>> \o Digits(<<1, 2, 3>>) \o <<CH_DOT>>
                 \o Digits(<<4, 5, 6, 7, 8, 9>>)
    /\ call_out.val = -1234567

\* C29 (as stated): on commit of a tag 44 field the builder's price is
\* exactly fast_atof_fixed of the value bytes, for every value, positive,
\* zero or negative.
CommitKeepsFixed ==
    call_out.op = "commit_44" => call_out.val = fast_atof_fixed(call_in, PRICE_SCALE)

(***************************************************************************)
(* Properties of the repeating-group parser under SpecGroups.              *)
(***************************************************************************)
\* the written fields with the given tag, in their order
Occurrences(fs, tag) == SelectSeq(fs, LAMBDA f : f.tag = tag)

\* the ticks of a snapshot, from its written fields: occurrence i of 269
\* with occurrences i of 270 and 271, the entries that are not valid left out
ExpectedTicks(fs) ==
    LET shared == Occurrences(fs, 55)
        symbol == IF Len(shared) > 0 THEN shared[1].value ELSE <<>>
        types == Occurrences(fs, 269)
        prices == Occurrences(fs, 270)
        sizes == Occurrences(fs, 271)
        n == Min3(Len(types), Len(prices), Len(sizes))
        entry == [i \in 1..n |->
                    [symbol |-> symbol,
                     side |-> LET t == fast_atoi(types[i].value)
                              IN IF t = 0 THEN SIDE_B ELSE IF t = 1 THEN SIDE_S ELSE SIDE_T,
                     price |-> fast_atof_fixed(prices[i].value, PRICE_SCALE),
                     qty |-> fast_atoi(sizes[i].value)]]
    IN SelectSeq(entry, LAMBDA t : /\ t.symbol # <<>>
                                   /\ t.price > 0
                                   /\ t.qty > 0
                                   /\ t.side \in {SIDE_B, SIDE_S})

\* 8=FIX.4.4|35=W|55=MSFT|268=3| and the three entries of the scenario
ScenarioFields ==
    Preamble \o <<Symbol55, Written(268, <<2, 6, 8>>, Digits(<<3>>))>>
             \o Flatten(ScenarioEntries)

MSFT(side, price, qty) ==
    [symbol |-> <<77, 83, 70, 84>>, side |-> side, price |-> price, qty |-> qty]

\* C26: for a '|'-delimited snapshot with shared symbol S,
\* parse_repeating_groups pairs occurrence i of tag 269 with occurrences i
\* of 270 and 271, i < min(|269|, |270|, |271|), and returns, in that
\* order, the tick (S, fast_atof_fixed(270_i), fast_atoi(271_i), 0->B /
\* 1->S) of every entry that is valid; an entry that is not valid is left
\* out alone.  The snapshot of the scenario gives its three ticks.
GroupsPaired ==
    (call_out.op = "parse_repeating_groups" /\ call_in.delimiter = CH_PIPE) =>
        /\ call_out.val = ExpectedTicks(call_in.fields)
        /\ call_in.fields = ScenarioFields =>
              call_out.val = <<MSFT(SIDE_B, 1005000, 1000), MSFT(SIDE_B, 1002500, 500),
                               MSFT(SIDE_S, 1007500, 750)>>

\* a trade entry between two valid entries was left out, the two others kept
InvalidEntrySkippedAlone ==
    /\ call_out.op = "parse_repeating_groups"
    /\ call_in.delimiter = CH_PIPE
    /\ call_in.fields = Preamble \o <<Symbol55>>
                        \o Flatten(<<ScenarioEntries[1],
                                     <<T269(2), T270(<<1>>, <<5>>), T271(<<7>>)>>,
                                     ScenarioEntries[3]>>)
    /\ call_out.val = <<MSFT(SIDE_B, 1005000, 1000), MSFT(SIDE_S, 1007500, 750)>>

\* C27 (as stated): a snapshot whose fields are separated by SOH, '\r' or
\* '\n' decodes to the same ticks as its '|'-delimited form.
SameTicksForEveryDelimiter ==
    call_out.op = "parse_repeating_groups" =>
        call_out.val = parse_repeating_groups(Render(call_in.fields, CH_PIPE))

(***************************************************************************)
(* Properties of the parser under SpecEdge.                                *)
(***************************************************************************)
\* the number of messages among the first k whose builder holds all four
\* fields when their tag 10 is committed
RECURSIVE CompleteBuilders(_)
CompleteBuilders(k) ==
    IF k = 0 THEN 0
    ELSE CompleteBuilders(k - 1)
         + (IF Messages[msgs[k]].kind \in {"valid", "zero_qty", "bad_side", "bad_price"}
            THEN 1 ELSE 0)

\* C28: emission depends on presence only: a message that commits 55, 44,
\* 38, 54 and then 10 makes parse append exactly one tick with the
\* committed values, also when they are not valid (qty 0, price 0 from a
\* text that is no number, side '\0' from a 54 other than 1 or 2), and
\* that tick fails Tick::is_valid.
PresenceOnlyEmission ==
    \A k \in 1..Len(msgs) :
        (pos = MsgEnd(msgs, k) /\ Messages[msgs[k]].kind \in {"zero_qty", "bad_side", "bad_price"})
            => /\ Len(ticks) = CompleteBuilders(k)
               /\ CompleteBuilders(k) = CompleteBuilders(k - 1) + 1
               /\ LET t == ticks[Len(ticks)]
                      m == Messages[msgs[k]]
                  IN /\ tick_symbol(parser, t) = m.symbol
                     /\ t.price = m.price
                     /\ t.qty = m.qty
                     /\ t.side = m.side
                     /\ t.qty = 0 \/ t.price = 0 \/ t.side = SIDE_NONE
                     /\ ~tick_is_valid(parser, t)

\* a tick with price 0 came out of the message whose price is no number,
\* after the tick of a valid message
ZeroPriceTickEmitted ==
    /\ msgs = <<"V1", "NP">>
    /\ pos = Len(stream)
    /\ Len(ticks) = 2
    /\ ticks[2].price = 0
    /\ ~tick_is_valid(parser, ticks[2])

\* C30 (as stated): a message whose symbol is 64 bytes or longer and whose
\* 44, 38 and 54 are valid still emits a tick, its symbol cut to the slot.
LongSymbolStillEmits ==
    \A k \in 1..Len(msgs) :
        (pos = MsgEnd(msgs, k) /\ Messages[msgs[k]].kind = "long_symbol")
            => /\ Len(ticks) = CompleteBuilders(k - 1) + 1
               /\ ticks[Len(ticks)].symbol_size > 0

(***************************************************************************)
(* Properties of is_parsing, reset and the return value of parse.          *)
(***************************************************************************)
\* offset at which message k is terminated: the delimiter that ends its tag
\* 10 field (a newline that follows it belongs to no message)
Terminated(k) ==
    LET bytes == Messages[msgs[k]].bytes
    IN MsgEnd(msgs, k) - (IF bytes[Len(bytes)] = CH_LF THEN 1 ELSE 0)

\* the parser has consumed bytes of a message that is not terminated yet
MidMessage ==
    \E k \in 1..Len(msgs) : MsgStart(msgs, k) < pos /\ pos < Terminated(k)

\* C31 (as stated): is_parsing() is true whenever the parser has consumed
\* bytes of a message that is not terminated yet, also right after a
\* committed field, and false exactly when the parser is idle between
\* messages.
IsParsingMidMessage == AllValid => (is_parsing(parser) <=> MidMessage)

\* the parser and the ticks of a fresh parser after one parse call on the
\* bytes fed since the last reset
SinceReset == parse(NewParser, <<>>, SubSeq(stream, call_out.val.at + 1, pos))

\* C32: reset() returns the parser to its initial parsing state from any
\* state: right after it is_parsing() is false and get_state() is WAIT_TAG,
\* and for every later input the ticks emitted are those of a freshly
\* constructed parser.
ResetLikeFresh ==
    /\ [][ResetParser => (~is_parsing(parser') /\ parser'.state = "WAIT_TAG")]_vars
    /\ [](call_out.op = "reset" =>
            LET fresh == SinceReset
                had == call_out.val.had
            IN /\ Len(ticks) = had + Len(fresh[2])
               /\ \A i \in 1..Len(fresh[2]) :
                     /\ ticks[had + i] = fresh[2][i]
                     /\ tick_symbol(parser, ticks[had + i]) = tick_symbol(fresh[1], fresh[2][i])
               /\ parser.state = fresh[1].state
               /\ is_parsing(parser) = is_parsing(fresh[1]))

\* the parser was reset inside a value, its builder holding fields, and a
\* tick came out of the bytes that followed
ResetInsideValueThenTick ==
    /\ call_out.op = "reset"
    /\ call_out.val.from = "READ_VALUE"
    /\ call_out.val.held
    /\ Len(ticks) > call_out.val.had

\* C40: between parse calls, after any sequence of parse and reset calls,
\* get_state() is never COMPLETE or WAIT_VALUE, current_tag_ is 0 whenever
\* the state is WAIT_TAG, and is_parsing() is get_state() != WAIT_TAG.
NeverCompleteBetweenCalls ==
    /\ parser.state \notin {"COMPLETE", "WAIT_VALUE"}
    /\ parser.state = "WAIT_TAG" => parser.current_tag = 0
    /\ is_parsing(parser) <=> parser.state # "WAIT_TAG"

\* a message was completed after a reset and the parser is back in WAIT_TAG
CompletedAfterReset ==
    /\ call_out.op = "reset"
    /\ call_out.val.from = "READ_TAG"
    /\ Len(ticks) = call_out.val.had + 1
    /\ pos = Len(stream)
    /\ parser.state = "WAIT_TAG"

\* C34: parse(buffer, length, ticks) returns exactly length, for every input
\* and every parser state: a step feeds all the bytes it was given, and
\* every slice that can be given next, the empty one included, is consumed
\* whole.
ParseConsumesAll ==
    /\ [][/\ pos' > pos
          /\ <<parser', ticks'>> = parse(parser, ticks, SubSeq(stream, pos + 1, pos'))
          /\ \/ pos' - pos <= MaxChunk
             \/ pos' = NextBoundary
             \/ pos' = Len(stream)]_vars
    /\ [](/\ parse_return(parser, <<>>) = 0
          /\ \A n \in ChunkSizes :
                parse_return(parser, SubSeq(stream, pos + 1, pos + n)) = n)

\* a parse call that ended inside a tag of a message without a symbol
\* returned, and the next one went on
CutInsideTagOfMalformed ==
    /\ msgs = <<"NS">>
    /\ 0 < pos /\ pos < Len(stream)
    /\ parser.state = "READ_TAG"
    /\ parser.tick_builder.has_price

\* C33 (as stated): an entry whose MDEntryType is 2 and whose price and
\* size are positive is emitted as a tick with side 'T'.
TradeEntryEmitted ==
    (call_out.op = "parse_repeating_groups" /\ call_in.delimiter = CH_PIPE) =>
        LET fs == call_in.fields
            shared == Occurrences(fs, 55)
            types == Occurrences(fs, 269)
            prices == Occurrences(fs, 270)
            sizes == Occurrences(fs, 271)
        IN \A i \in 1..Min3(Len(types), Len(prices), Len(sizes)) :
              (/\ Len(shared) > 0
               /\ fast_atoi(types[i].value) = 2
               /\ fast_atof_fixed(prices[i].value, PRICE_SCALE) > 0
               /\ fast_atoi(sizes[i].value) > 0)
                 => \E j \in 1..Len(call_out.val) :
                       call_out.val[j] = [symbol |-> shared[1].value, side |-> SIDE_T,
                                          price |-> fast_atof_fixed(prices[i].value,
                                                                    PRICE_SCALE),
                                          qty |-> fast_atoi(sizes[i].value)]

(***************************************************************************)
(* SpecRestart: the pipeline of SpecPipeline whose caller, once stop() has *)
(* returned, calls start() a second time on the same ThreadedFeedHandler.  *)
(***************************************************************************)

\* start() after stop() has returned: running_ is false again, the two
\* thread objects are replaced by new threads; buffer_queue_ is the queue
\* stop() shut down
Restart ==
    /\ main_pc = "stopped"
    /\ ~running_
    /\ running_' = TRUE
    /\ parser_pc' = "loop"
    /\ network_pc' = "loop"
    /\ main_pc' = "restarted"
    /\ UNCHANGED <<fixed_vars, parser, ticks, mq, mq_accepted, mq_popped, stats_,
                   inject_pc, inject_next, parser_item, delivered, quiet_stop>>

NextRestart == NextPipeline \/ Restart

SpecRestart == InitPipeline /\ [][NextRestart]_vars

\* C35 (as stated): after start(); stop(); start() the handler is running,
\* the parser thread stays alive, and a buffer injected while the queue has
\* room is enqueued as after the first start().
RestartedLikeStarted ==
    /\ [](main_pc = "restarted" => running_ /\ parser_pc # "exit")
    /\ [][(/\ main_pc = "restarted"
           /\ inject_pc = "push"
           /\ inject_pc' = "count"
           /\ ~(mq.max_size_ > 0 /\ Len(mq.queue_) >= mq.max_size_))
             => mq_accepted' = Append(mq_accepted, inject_next)]_vars

\* the two halves of C35 on their own
RestartedParserAlive == main_pc = "restarted" => parser_pc # "exit"

RestartedInjectEnqueued ==
    [][(/\ main_pc = "restarted"
        /\ inject_pc = "push"
        /\ inject_pc' = "count"
        /\ ~(mq.max_size_ > 0 /\ Len(mq.queue_) >= mq.max_size_))
          => mq_accepted' = Append(mq_accepted, inject_next)]_vars

(***************************************************************************)
(* SpecStream: a StreamingFixHandler given any MaxCalls blocks of bytes by *)
(* process_incoming_data, with reset() called at any time.                 *)
(***************************************************************************)
MaxCalls == 3

\* the lengths of the blocks of filler bytes: a quarter of the buffer and a
\* byte, half of it, half of it and a byte
BlockLens == {BUFFER_SIZE \div 4 + 1, BUFFER_SIZE \div 2, BUFFER_SIZE \div 2 + 1}

\* the blocks a caller passes: one complete valid message, or filler
StreamBlocks == {Concat(<<"V1">>)} \cup {Payload(0, len) : len \in BlockLens}

InitStream ==
    /\ IdleRecovery
    /\ IdleBuffer
    /\ IdleThreads
    /\ msgs = <<>>
    /\ stream = <<>>
    /\ pos = 0
    /\ parser = NewParser
    /\ ticks = <<>>

\* the compaction test of process_buffer: buffer_.readable_bytes() <
\* available - consumed, read after buffer_.consume(consumed)
compaction_seen(after, available, consumed) ==
    readable_bytes(after) < available - consumed

\* ReceiveBuffer::consume(len) takes its compacting branch
consume_compacts(b, len) ==
    b.read_pos_ + Min(len, readable_bytes(b)) > BUFFER_SIZE \div 2

\* process_buffer(ticks) on buffer b: the handler's members after the call
process_buffer(b, p, out, st) ==
    LET data == readable(b)
        available == readable_bytes(b)
        r == parse(p, out, data)
        consumed == parse_return(p, data)
        after == IF consumed > 0 THEN consume(b, consumed) ELSE b
        ticks_parsed == Len(r[2]) - Len(out)
    IN IF available = 0
       THEN [buffer_ |-> b, parser_ |-> p, ticks |-> out, stats_ |-> st,
             compacted |-> FALSE]
       ELSE [buffer_ |-> after, parser_ |-> r[1], ticks |-> r[2],
             stats_ |-> [st EXCEPT
                           !.buffer_compactions =
                               IF consumed > 0
                                  /\ compaction_seen(after, available, consumed)
                               THEN @ + 1 ELSE @,
                           !.total_parse_calls = @ + 1,
                           !.total_messages_parsed = @ + ticks_parsed],
             compacted |-> consumed > 0 /\ consume_compacts(b, consumed)]

\* process_incoming_data(data, length, ticks)
ProcessIncomingData(data) ==
    /\ rb_ops < MaxCalls
    /\ LET w == write(rb, data)
           r == process_buffer(w.rb, parser, ticks,
                               [handler_stats EXCEPT !.total_bytes_received = @ + w.ret])
       IN /\ rb' = r.buffer_
          /\ parser' = r.parser_
          /\ ticks' = r.ticks
          /\ handler_stats' = r.stats_
          /\ compactions' = compactions + (IF r.compacted THEN 1 ELSE 0)
          /\ Wrote(data, w.ret)
          /\ rb_consumed' = rb_consumed + (Len(rb_written) + w.ret - rb_consumed)
    /\ rb_ops' = rb_ops + 1
    /\ UNCHANGED <<msgs, stream, pos, recovery_vars, mq_vars, pipe_vars, pool_vars,
                   call_vars, book_vars>>

\* StreamingFixHandler::reset
HandlerReset ==
    /\ rb_ops < MaxCalls
    /\ parser' = parser_reset(parser)
    /\ rb' = receive_buffer_reset(rb)
    /\ handler_stats' = NewStats
    /\ compactions' = 0
    /\ rb_written' = <<>>
    /\ rb_consumed' = 0
    /\ rb_truncated' = FALSE
    /\ rb_ops' = rb_ops + 1
    /\ UNCHANGED <<msgs, stream, pos, ticks, recovery_vars, mq_vars, pipe_vars,
                   pool_vars, call_vars, book_vars>>

NextStream ==
    \/ \E data \in StreamBlocks : ProcessIncomingData(data)
    \/ HandlerReset

SpecStream == InitStream /\ [][NextStream]_vars

\* C36 (as stated): buffer_compactions counts the process_buffer calls whose
\* consume compacted the receive buffer.
CompactionsCounted == handler_stats.buffer_compactions = compactions

\* a handler whose buffer was compacted at least once
BufferWasCompacted == compactions > 0

(***************************************************************************)
(* OrderBook (orderbook/order_book.hpp, order_book.cpp).  bids_ is a       *)
(* std::map ordered by std::greater, asks_ one ordered by std::less; a map *)
(* is kept as the sequence of its values in iteration order, and a new key *)
(* goes where the comparator puts it.                                      *)
(***************************************************************************)
\* PriceLevel(p, q, c), and PriceLevel()
PriceLevel(p, q, c) == [price |-> p, quantity |-> q, order_count |-> c]
EmptyPriceLevel == PriceLevel(0, 0, 0)

\* the comparator of a side's map: std::greater for bids, std::less for asks
comes_before(side, a, b) == IF side = "BID" THEN a > b ELSE a < b

\* map::find: the position of the key, 0 for end()
map_find(m, price) ==
    IF \E i \in 1..Len(m) : m[i].price = price
    THEN CHOOSE i \in 1..Len(m) : m[i].price = price
    ELSE 0

\* a map that keeps insertion order
map_insert_at_end(side, m, level) == Append(m, level)

\* map::operator[] of a key that is absent: the entry goes after the keys
\* the comparator orders before it
map_insert(side, m, level) ==
    LET before == Cardinality({i \in 1..Len(m) : comes_before(side, m[i].price, level.price)})
    IN SubSeq(m, 1, before) \o <<level>> \o SubSeq(m, before + 1, Len(m))

\* map::erase(it)
map_erase(m, i) == SubSeq(m, 1, i - 1) \o SubSeq(m, i + 1, Len(m))

\* OrderBook::add_order on the map of its side (order_count is a uint32_t;
\* MaxBookOps calls keep it far from its upper end)
add_order(side, m, price, quantity) ==
    LET it == map_find(m, price)
    IN IF quantity <= 0 THEN m
       ELSE IF it # 0
       THEN [m EXCEPT ![it].quantity = @ + quantity,
                      ![it].order_count = @ + 1]
       ELSE map_insert(side, m, PriceLevel(price, quantity, 1))

\* OrderBook::modify_order on the map of its side
modify_order(side, m, price, quantity_delta) ==
    LET it == map_find(m, price)
    IN IF it = 0 THEN m
       ELSE IF m[it].quantity + quantity_delta <= 0 THEN map_erase(m, it)
       ELSE [m EXCEPT ![it].quantity = @ + quantity_delta]

\* delete_order that removes a level only below zero
delete_order_erase_below_zero(side, m, price, quantity) ==
    LET it == map_find(m, price)
    IN IF quantity <= 0 \/ it = 0 THEN m
       ELSE IF m[it].quantity - quantity < 0 THEN map_erase(m, it)
       ELSE [m EXCEPT ![it].quantity = @ - quantity,
                      ![it].order_count = IF @ > 0 THEN @ - 1 ELSE @]

\* OrderBook::delete_order on the map of its side
delete_order(side, m, price, quantity) ==
    LET it == map_find(m, price)
    IN IF quantity <= 0 \/ it = 0 THEN m
       ELSE IF m[it].quantity - quantity <= 0 THEN map_erase(m, it)
       ELSE [m EXCEPT ![it].quantity = @ - quantity,
                      ![it].order_count = IF @ > 0 THEN @ - 1 ELSE @]

\* get_best_bid / get_best_ask: begin()->second, PriceLevel() when empty
get_best(m) == IF m = <<>> THEN EmptyPriceLevel ELSE m[1]
get_best_bid == get_best(bids_)
get_best_ask == get_best(asks_)

\* the loop of get_depth: push levels until count reaches the request
RECURSIVE depth_loop(_, _, _, _)
depth_loop(m, levels, count, depth) ==
    IF count >= Len(m) \/ count >= levels THEN depth
    ELSE depth_loop(m, levels, count + 1, Append(depth, m[count + 1]))

get_depth(side, levels) ==
    depth_loop(IF side = "BID" THEN bids_ ELSE asks_, levels, 0, <<>>)

(***************************************************************************)
(* SpecBook: any MaxBookOps calls of add_order, modify_order, delete_order *)
(* and clear on one OrderBook.                                             *)
(***************************************************************************)
MaxBookOps == 4

BookSides == {"BID", "ASK"}
BookPrices == {100, 101, 102}
BookQuantities == {-1, 0, 1, 2}
BookDeltas == {-2, -1, 0, 1}

InitBook ==
    /\ IdleRecovery
    /\ IdleBuffer
    /\ IdleThreads
    /\ msgs = <<>>
    /\ stream = <<>>
    /\ pos = 0
    /\ parser = NewParser
    /\ ticks = <<>>

not_book_vars == <<parser_vars, recovery_vars, rb_vars, mq_vars, pipe_vars, pool_vars,
                   call_vars, stream_vars>>

side_map(side) == IF side = "BID" THEN bids_ ELSE asks_

\* the book after a call that turns the map of side into m
BookCall(op, side, price, quantity, m) ==
    /\ bids_' = IF side = "BID" THEN m ELSE bids_
    /\ asks_' = IF side = "ASK" THEN m ELSE asks_
    /\ book_last' = [op |-> op, side |-> side, price |-> price, quantity |-> quantity,
                     found |-> map_find(side_map(side), price) # 0]
    /\ book_ops' = book_ops + 1
    /\ UNCHANGED not_book_vars

AddOrder(side, price, quantity) ==
    /\ book_ops < MaxBookOps
    /\ BookCall("add_order", side, price, quantity,
                add_order(side, side_map(side), price, quantity))

ModifyOrder(side, price, quantity_delta) ==
    /\ book_ops < MaxBookOps
    /\ BookCall("modify_order", side, price, quantity_delta,
                modify_order(side, side_map(side), price, quantity_delta))

DeleteOrder(side, price, quantity) ==
    /\ book_ops < MaxBookOps
    /\ BookCall("delete_order", side, price, quantity,
                delete_order(side, side_map(side), price, quantity))

\* OrderBook::clear
ClearBook ==
    /\ book_ops < MaxBookOps
    /\ bids_' = <<>>
    /\ asks_' = <<>>
    /\ book_last' = [NoBookCall EXCEPT !.op = "clear"]
    /\ book_ops' = book_ops + 1
    /\ UNCHANGED not_book_vars

NextBook ==
    \/ \E side \in BookSides, price \in BookPrices, quantity \in BookQuantities :
          AddOrder(side, price, quantity)
    \/ \E side \in BookSides, price \in BookPrices, delta \in BookDeltas :
          ModifyOrder(side, price, delta)
    \/ \E side \in BookSides, price \in BookPrices, quantity \in BookQuantities :
          DeleteOrder(side, price, quantity)
    \/ ClearBook

SpecBook == InitBook /\ [][NextBook]_vars

\* the prices of the levels of a map, and the level a price is stored at
LevelPrices(m) == {m[i].price : i \in 1..Len(m)}
LevelAt(m, price) == m[CHOOSE i \in 1..Len(m) : m[i].price = price]

\* the requests get_depth is asked with
DepthRequests == 0..(Cardinality(BookPrices) + 1)

\* C37: on each side the levels have distinct prices; get_best_bid is the
\* level with the highest bid price and get_best_ask the one with the lowest
\* ask price (an empty PriceLevel on an empty side); get_depth(side, k) is
\* the first min(k, level count) levels, bids strictly descending and asks
\* strictly ascending.
BookOrdered ==
    /\ \A side \in BookSides :
          LET m == side_map(side)
          IN /\ \A i, j \in 1..Len(m) : i # j => m[i].price # m[j].price
             /\ \A k \in DepthRequests :
                   LET d == get_depth(side, k)
                   IN /\ Len(d) = Min(k, Len(m))
                      /\ \A i \in 1..Len(d) : d[i] \in {m[j] : j \in 1..Len(m)}
                      /\ \A i \in 1..(Len(d) - 1) :
                            IF side = "BID" THEN d[i].price > d[i + 1].price
                            ELSE d[i].price < d[i + 1].price
                      \* the levels left out are all worse than the ones returned
                      /\ \A i \in 1..Len(d) :
                            \A l \in {m[j] : j \in 1..Len(m)} \ {d[n] : n \in 1..Len(d)} :
                                IF side = "BID" THEN l.price < d[i].price
                                ELSE l.price > d[i].price
    /\ IF bids_ = <<>> THEN get_best_bid = EmptyPriceLevel
       ELSE /\ get_best_bid \in {bids_[i] : i \in 1..Len(bids_)}
            /\ \A p \in LevelPrices(bids_) : get_best_bid.price >= p
    /\ IF asks_ = <<>> THEN get_best_ask = EmptyPriceLevel
       ELSE /\ get_best_ask \in {asks_[i] : i \in 1..Len(asks_)}
            /\ \A p \in LevelPrices(asks_) : get_best_ask.price <= p

\* a book with two levels on each side whose last call added a new best bid
NewBestBidAdded ==
    /\ book_last.op = "add_order"
    /\ book_last.side = "BID"
    /\ ~book_last.found
    /\ Len(bids_) >= 2
    /\ Len(asks_) >= 2
    /\ get_best_bid.price = book_last.price
    /\ Len(get_depth("ASK", 1)) = 1

\* the calls C38 names as having no effect: add_order and delete_order with
\* a quantity <= 0, modify_order and delete_order on a price without level
IgnoredCall(c) ==
    \/ c.op \in {"add_order", "delete_order"} /\ c.quantity <= 0
    \/ c.op \in {"modify_order", "delete_order"} /\ ~c.found

\* the change a call asks for in the quantity of its level
QuantityChange(c) ==
    IF c.op = "delete_order" THEN 0 - c.quantity ELSE c.quantity

\* C38: every stored level has quantity > 0; a level is removed exactly when
\* modify_order or delete_order brings its quantity to <= 0 (clear aside);
\* add_order and delete_order with quantity <= 0, and modify_order and
\* delete_order on a price that has no level, leave the book unchanged.
NoEmptyLevel ==
    /\ [](\A side \in BookSides :
             \A i \in 1..Len(side_map(side)) : side_map(side)[i].quantity > 0)
    /\ [][book_ops' = book_ops + 1 /\ book_last'.op # "clear" =>
            LET c == book_last'
                old == side_map(c.side)
                new == IF c.side = "BID" THEN bids_' ELSE asks_'
                removed == LevelPrices(old) \ LevelPrices(new)
            IN /\ IgnoredCall(c) => bids_' = bids_ /\ asks_' = asks_
               /\ removed \subseteq {c.price}
               /\ c.price \in removed <=>
                     /\ c.op \in {"modify_order", "delete_order"}
                     /\ ~IgnoredCall(c)
                     /\ LevelAt(old, c.price).quantity + QuantityChange(c) <= 0
               /\ (IF c.side = "BID" THEN asks_' = asks_ ELSE bids_' = bids_)]_vars

\* a delete_order of the largest quantity has found a level and removed
\* it, and the other level of its side is still there
LevelDeletedAtZero ==
    /\ book_last.op = "delete_order"
    /\ book_last.found
    /\ book_last.quantity = 2
    /\ map_find(side_map(book_last.side), book_last.price) = 0
    /\ Len(side_map(book_last.side)) = 1

\* C39 (as stated): every stored level has order_count >= 1.
OrderCountPositive ==
    \A side \in BookSides :
        \A i \in 1..Len(side_map(side)) : side_map(side)[i].order_count >= 1

====
